---- MODULE Spec2Model ----
(***************************************************************************)
(* A model of pulse: the dispatch store (internal/dispatch), the per-host  *)
(* health check (checker.go), the concurrent fan-out and the modes of      *)
(* main.go, the state tracker (notify.go), the web server (web.go) and the *)
(* TUI with its Jira view (tui.go, jira_view.go).  Each component has its  *)
(* own specification; the variables of the other components stay at their *)
(* initial values.                                                         *)
(***************************************************************************)
EXTENDS Integers, Sequences, FiniteSets, TLC

VARIABLES
    \* dispatch.Store
    Assignments,   \* Store.Assignments, in store order
    file,          \* the file at Store.path: whether it exists, and its content
    clock,         \* the wall clock read by time.Now()
    ret,           \* the last store operation, its arguments and what it returned
    \* one call of checkHost
    hc,            \* the HostConfig under check
    cpc,           \* where checkHost is
    status,        \* the HostStatus being assembled
    methods,       \* authMethods of sshConnect
    connErr,       \* the error sshConnect returned, "" for nil
    failedAt,      \* the step of sshConnect that failed, "" if none
    conns,         \* the connections that are open
    dials,         \* TCP dials made
    handshakes,    \* SSH handshakes made
    cmdLog,        \* the runCommand calls made: metric, command, err, out
    \* one call of checkAllHosts
    hosts,         \* cfg.Hosts
    up,            \* for each entry, whether its host accepts the session
    fpc,           \* where checkAllHosts is
    spawned,       \* goroutines started by the first loop
    wpc,           \* for each goroutine: "none", "running" or "sent"
    ch,            \* the buffered channel, capacity len(cfg.Hosts)
    received,      \* iterations of the second loop
    results,       \* the results slice
    arrival,       \* the indices in the order they were received
    \* StateTracker, fed with the results of every poll cycle
    prev,          \* StateTracker.prev
    transitions,   \* what the last Update returned
    tasks,         \* the notify goroutines started so far
    cycle,         \* Update calls made
    upHist,        \* for each cycle, the online flags of its batch
    outHist,       \* for each cycle and result, what its iteration did
    \* the notify goroutines of the tracker
    config,        \* StateTracker.config
    jobs,          \* for each goroutine started: where it is, and what it has sent
    \* the monitor as main runs it
    mode,          \* "tui", "web" or "watch"
    latest,        \* the results on display: model.hosts, WebServer.latest, the table
    polls,         \* poll cycles completed
    \* the memory behind Store.Assignments
    heap,          \* the backing arrays allocated so far, each with cap cells
    slice,         \* the slice header of s.Assignments: array, len, cap
    held,          \* the slice headers All has returned to callers
    heldVal,       \* for each returned list, what its caller has put in it
    \* concurrent callers of the store
    calls,         \* for each caller: its operation, where it is, its locals
    mu,            \* Store.mu: the writer that holds it, and the readers
    \* NewStore on a path
    disk,          \* the file at the path: its kind, its text, and how it came about
    made,          \* what NewStore returned
    \* the web server: pollLoop and one request to /api/status
    arrays,        \* the backing arrays checkAllHosts has made
    poller,        \* pollLoop: where it is, its results slice, the slots not yet filled
    wsLatest,      \* ws.latest: the array it points to, 0 for nil
    published,     \* for each array assigned to ws.latest, its content at that time
    reader,        \* handleAPI: where it is, its results slice, and out
    \* the poll loop of each run mode
    tab,           \* model.tab of the TUI
    checking,      \* model.checking of the TUI
    inflight,      \* calls of checkAllHosts that have not returned
    timers,        \* tea.Tick timers that have not fired
    lpc,           \* where the loop of --watch or pollLoop is
    \* the goroutines that use the tracker
    accesses,      \* the reads and writes of fields made so far, and by which goroutine
    updating,      \* the goroutines that are inside StateTracker.Update
    \* what sshConnect found on the local system
    env,           \* the agent socket and the key files as sshConnect found them, and the list it built
    \* the web server with the history of the sparklines
    history,       \* ws.history: for each host name, Checks and Times of its HostHistory
    hlatest,       \* ws.latest as the history loop and the requests see it
    hmu,           \* ws.mu: whether pollLoop holds the lock
    adder,         \* pollLoop: where it is in the loop over results and inside Add
    viewer,        \* handleAPI: where it is, its results, what it has read and out
    added,         \* for each host name, every flag given to Add, in the order of the calls
    \* the TUI: the host list and the Jira view
    jm,            \* the jiraModel of the TUI
    hcursor,       \* model.cursor, the cursor of the host list
    inbox,         \* the commands whose message has not been handed to Update
    nreq,          \* the commands started so far
    search,        \* the most recent loadIssues: its number and its project
    shown,         \* the number of the loadIssues whose response is in jm.issues, 0 for none
    spath,         \* store.path of the dispatch store of the TUI
    panicked       \* an index was out of range

storeVars == <<Assignments, file, clock, ret>>

checkVars == <<hc, cpc, status, methods, connErr, failedAt, conns, dials,
               handshakes, cmdLog>>

fanVars == <<up, fpc, spawned, wpc, ch, received, results, arrival>>

trackVars == <<prev, transitions, tasks, cycle, upHist, outHist>>

notifyVars == <<config, jobs>>

modeVars == <<mode, latest, polls>>

memVars == <<heap, slice, held, heldVal>>

lockVars == <<calls, mu>>

loadVars == <<disk, made>>

webVars == <<arrays, poller, wsLatest, published, reader>>

loopVars == <<tab, checking, inflight, timers, lpc>>

ownVars == <<accesses, updating>>

authVars == <<env>>

histVars == <<history, hlatest, hmu, adder, viewer, added>>

jiraVars == <<jm, hcursor, inbox, nreq, search, shown, spath, panicked>>

vars == <<storeVars, checkVars, hosts, fanVars, trackVars, notifyVars, modeVars,
          memVars, lockVars, loadVars, webVars, loopVars, ownVars, authVars, histVars, jiraVars>>

(***************************************************************************)
(* Bounds of the model.                                                    *)
(***************************************************************************)
\* time.Now() is not read once the clock has reached MaxClock
MaxClock == 6
\* the longest cfg.Hosts
MaxHosts == 2
\* the poll cycles of one monitoring session
MaxCycles == 3
\* the notify goroutines of one monitoring session whose delivery is followed
MaxJobs == 2
\* the lists returned by All that callers keep
MaxHeld == 1
\* the checks in flight and the timers pending in the TUI
MaxChains == 4

(***************************************************************************)
(* internal/dispatch/dispatch.go                                           *)
(***************************************************************************)
StatusPending == "pending"
StatusInProgress == "in-progress"
StatusDone == "done"
StatusFailed == "failed"

Statuses == {StatusPending, StatusInProgress, StatusDone, StatusFailed}

\* the arguments the callers are drawn from
IssueKeys == {"PROJ-1", "PROJ-2"}
Targets == {"hostA", "hostB"}
Summaries == {"Fix bug", "Fix bug now"}
StatusArgs == {StatusDone}
Notes == {"blocked"}

\* fmt.Sprintf("%s→%s", issueKey, target)
ID(issueKey, target) == issueKey \o "→" \o target

IDArgs == {ID(k, t) : k \in IssueKeys, t \in Targets}

\* time.Now(): a wall clock reading that carries a monotonic clock reading
Now(c) == [wall |-> c, mono |-> TRUE]

\* Go's Time.Equal: the same instant, whatever the monotonic reading
TimeEqual(t, u) == t.wall = u.wall

\* os.ReadFile fails on NoFile; otherwise data is the JSON document in the file
NoFile == [exists |-> FALSE, data |-> [assignments |-> <<>>]]
FileOf(doc) == [exists |-> TRUE, data |-> doc]
NoErr == "nil"
ErrNotFound == "not found"
ErrIO == "io error"

NoRet == [op |-> "", args |-> <<>>, err |-> NoErr, val |-> <<>>]

\* the Assignment literal of Assign; CreatedAt and UpdatedAt are two readings
NewAssignment(issueKey, summary, target, c) ==
    [ID        |-> ID(issueKey, target),
     IssueKey  |-> issueKey,
     Summary   |-> summary,
     Target    |-> target,
     Status    |-> StatusPending,
     CreatedAt |-> Now(c),
     UpdatedAt |-> Now(c + 1),
     Note      |-> ""]

\* the first index whose record has this issue key and target, 0 if none
IndexOfPair(as, issueKey, target) ==
    LET hit == {i \in 1..Len(as) : as[i].IssueKey = issueKey /\ as[i].Target = target}
    IN  IF hit = {} THEN 0 ELSE CHOOSE i \in hit : \A j \in hit : i <= j

\* the first index whose record has this id, 0 if none
IndexOfID(as, id) ==
    LET hit == {i \in 1..Len(as) : as[i].ID = id}
    IN  IF hit = {} THEN 0 ELSE CHOOSE i \in hit : \A j \in hit : i <= j

AssignAlwaysAppends(as, a) == Append(as, a)

AssignMovesToEnd(as, a) ==
    LET i == IndexOfPair(as, a.IssueKey, a.Target)
    IN  IF i > 0
        THEN Append(SubSeq(as, 1, i - 1) \o SubSeq(as, i + 1, Len(as)), a)
        ELSE Append(as, a)

\* the loop and the append of Assign: replace in place, else append
AssignInto(as, a) ==
    LET i == IndexOfPair(as, a.IssueKey, a.Target)
    IN  IF i > 0 THEN [as EXCEPT ![i] = a] ELSE Append(as, a)

\* Store.Assign; it returns a pointer to the stored record
Assign(issueKey, summary, target) ==
    /\ clock + 2 <= MaxClock
    /\ LET a  == NewAssignment(issueKey, summary, target, clock)
           as == AssignInto(Assignments, a)
           i  == IndexOfPair(as, issueKey, target)
       IN  /\ Assignments' = as
           /\ ret' = [op |-> "Assign", args |-> <<issueKey, summary, target>>, err |-> NoErr,
                      val |-> <<as[i]>>]
    /\ clock' = clock + 2
    /\ UNCHANGED file

UpdateStatusResetsCreated(as, id, stat, note, c) ==
    LET i == IndexOfID(as, id)
    IN  IF i > 0
        THEN [as EXCEPT ![i].Status = stat, ![i].Note = note,
                        ![i].UpdatedAt = Now(c), ![i].CreatedAt = Now(c)]
        ELSE as

UpdateStatusAlways(as, id, stat, note, c) ==
    [i \in 1..Len(as) |-> [as[i] EXCEPT !.Status = stat, !.Note = note,
                                         !.UpdatedAt = Now(c)]]

\* the loop of UpdateStatus: the first record with the id is changed
UpdateStatusIn(as, id, stat, note, c) ==
    LET i == IndexOfID(as, id)
    IN  IF i > 0
        THEN [as EXCEPT ![i].Status = stat, ![i].Note = note,
                        ![i].UpdatedAt = Now(c)]
        ELSE as

\* Store.UpdateStatus
UpdateStatus(id, stat, note) ==
    LET i == IndexOfID(Assignments, id)
    IN  /\ i > 0 => clock + 1 <= MaxClock
        /\ Assignments' = UpdateStatusIn(Assignments, id, stat, note, clock)
        /\ clock' = IF i > 0 THEN clock + 1 ELSE clock
        /\ ret' = [op |-> "UpdateStatus", args |-> <<id, stat, note>>,
                   err |-> IF i > 0 THEN NoErr ELSE ErrNotFound, val |-> <<>>]
        /\ UNCHANGED file

RemoveBySwap(as, id) ==
    LET i == IndexOfID(as, id)
    IN  IF i > 0 THEN SubSeq([as EXCEPT ![i] = as[Len(as)]], 1, Len(as) - 1) ELSE as

\* the loop of Remove: append(s.Assignments[:i], s.Assignments[i+1:]...)
RemoveFrom(as, id) ==
    LET i == IndexOfID(as, id)
    IN  IF i > 0 THEN SubSeq(as, 1, i - 1) \o SubSeq(as, i + 1, Len(as)) ELSE as

\* Store.Remove
Remove(id) ==
    LET i == IndexOfID(Assignments, id)
    IN  /\ Assignments' = RemoveFrom(Assignments, id)
        /\ ret' = [op |-> "Remove", args |-> <<id>>,
                   err |-> IF i > 0 THEN NoErr ELSE ErrNotFound, val |-> <<>>]
        /\ UNCHANGED <<file, clock>>

\* the targets ForTarget is asked for; the Jira view asks for ""
TargetArgs == {"hostA", ""}

ForTargetFirstOnly(as, target) ==
    LET hit == SelectSeq(as, LAMBDA a : a.Target = target)
    IN  IF hit = <<>> THEN <<>> ELSE <<hit[1]>>

\* the loop of ForTarget: the records of the target are appended to out
ForTargetOf(as, target) == SelectSeq(as, LAMBDA a : a.Target = target)

\* Store.ForTarget
ForTarget(target) ==
    /\ ret' = [op |-> "ForTarget", args |-> <<target>>, err |-> NoErr,
               val |-> ForTargetOf(Assignments, target)]
    /\ UNCHANGED <<Assignments, file, clock>>

(***************************************************************************)
(* encoding/json as Save and NewStore use it.  A JSON object is a function *)
(* from the names of the fields that are present; a time is its RFC 3339   *)
(* text, which holds the wall clock reading and no monotonic reading.      *)
(***************************************************************************)
MarshalTimeSeconds(t) == [rfc3339 |-> (t.wall \div 2) * 2]

\* Time.MarshalJSON
MarshalTime(t) == [rfc3339 |-> t.wall]

\* Time.UnmarshalJSON
UnmarshalTime(j) == [wall |-> j.rfc3339, mono |-> FALSE]

JSONFields == {"id", "issue_key", "summary", "target", "status",
               "created_at", "updated_at"}

\* the struct tags of Assignment: note is omitted when empty
MarshalAssignment(a) ==
    [f \in JSONFields \cup (IF a.Note = "" THEN {} ELSE {"note"}) |->
        CASE f = "id"         -> a.ID
          [] f = "issue_key"  -> a.IssueKey
          [] f = "summary"    -> a.Summary
          [] f = "target"     -> a.Target
          [] f = "status"     -> a.Status
          [] f = "created_at" -> MarshalTime(a.CreatedAt)
          [] f = "updated_at" -> MarshalTime(a.UpdatedAt)
          [] f = "note"       -> a.Note]

\* json.Unmarshal into a zero Assignment: an absent field keeps ""
UnmarshalAssignment(o) ==
    [ID        |-> o["id"],
     IssueKey  |-> o["issue_key"],
     Summary   |-> o["summary"],
     Target    |-> o["target"],
     Status    |-> o["status"],
     CreatedAt |-> UnmarshalTime(o["created_at"]),
     UpdatedAt |-> UnmarshalTime(o["updated_at"]),
     Note      |-> IF "note" \in DOMAIN o THEN o["note"] ELSE ""]

\* json.MarshalIndent(s, "", "  "): the one exported field of Store
MarshalStore(as) ==
    [assignments |-> [i \in 1..Len(as) |-> MarshalAssignment(as[i])]]

\* json.Unmarshal(data, s)
UnmarshalStore(doc) ==
    [i \in 1..Len(doc.assignments) |-> UnmarshalAssignment(doc.assignments[i])]

\* Store.Save: the file is overwritten as a whole; MkdirAll or WriteFile can
\* fail before anything is written
Save ==
    \E ok \in BOOLEAN :
        /\ file' = IF ok THEN FileOf(MarshalStore(Assignments)) ELSE file
        /\ ret' = [op |-> "Save", args |-> <<>>, err |-> IF ok THEN NoErr ELSE ErrIO,
                   val |-> <<>>]
        /\ UNCHANGED <<Assignments, clock>>

\* NewStore(path) on the path of the store: the new store takes its place
Load ==
    /\ Assignments' = IF file.exists THEN UnmarshalStore(file.data) ELSE <<>>
    /\ ret' = [op |-> "NewStore", args |-> <<>>, err |-> NoErr, val |-> <<>>]
    /\ UNCHANGED <<file, clock>>

StoreStart ==
    /\ Assignments = <<>>
    /\ file = NoFile
    /\ clock = 0
    /\ ret = NoRet

\* a step of the store leaves the rest alone
StoreOnly ==
    UNCHANGED <<checkVars, hosts, fanVars, trackVars, notifyVars, modeVars, memVars,
                lockVars,
                loadVars, webVars, loopVars, ownVars, authVars, histVars, jiraVars>>

StoreNext ==
    \/ StoreOnly /\ \E k \in IssueKeys, s \in Summaries, t \in Targets : Assign(k, s, t)
    \/ StoreOnly /\ \E id \in IDArgs, st \in StatusArgs, n \in Notes : UpdateStatus(id, st, n)
    \/ StoreOnly /\ \E id \in IDArgs : Remove(id)
    \/ StoreOnly /\ \E t \in TargetArgs : ForTarget(t)
    \/ StoreOnly /\ Save
    \/ StoreOnly /\ Load

(***************************************************************************)
(* Text.  A Go string is modelled as the sequence of its characters, and   *)
(* the functions of package strings by what they do to it.                 *)
(***************************************************************************)
Space == {" ", "\n", "\t"}

\* strings.Trim(s, cutset): the leading and trailing characters of cutset go
Trim(s, cutset) ==
    LET keep == {i \in 1..Len(s) : s[i] \notin cutset}
    IN  IF keep = {} THEN <<>>
        ELSE SubSeq(s, CHOOSE i \in keep : \A j \in keep : i <= j,
                       CHOOSE i \in keep : \A j \in keep : j <= i)

\* strings.TrimSpace
TrimSpace(s) == Trim(s, Space)

\* the length of the longest prefix of s without a character of stop
RunLen(s, stop) ==
    LET hit == {i \in 1..Len(s) : s[i] \in stop}
    IN  IF hit = {} THEN Len(s) ELSE (CHOOSE i \in hit : \A j \in hit : i <= j) - 1

\* strings.Fields: the maximal runs of characters that are not white space
RECURSIVE Fields(_)
Fields(s) ==
    LET blank == {i \in 1..Len(s) : s[i] \notin Space}
    IN  IF blank = {} THEN <<>>
        ELSE LET from == CHOOSE i \in blank : \A j \in blank : i <= j
                 rest == SubSeq(s, from, Len(s))
                 n    == RunLen(rest, Space)
             IN  <<SubSeq(rest, 1, n)>> \o Fields(SubSeq(rest, n + 1, Len(rest)))

\* strings.Contains
Contains(s, sub) ==
    \E i \in 1..(Len(s) - Len(sub) + 1) : SubSeq(s, i, i + Len(sub) - 1) = sub

\* strings.SplitN(s, ",", 3)[0]: the text before the first comma
BeforeComma(s) == SubSeq(s, 1, RunLen(s, {","}))

\* fmt.Sprintf("%s %s %s", a, b, c)
Sprintf3(a, b, c) == a \o <<" ">> \o b \o <<" ">> \o c

(***************************************************************************)
(* config.go: the configured hosts.  CfgA and CfgC share the host field.   *)
(***************************************************************************)
CfgA == [Name |-> "arch", Host |-> "10.0.0.1", User |-> "jack", Port |-> 22,
         KeyFile |-> "", Password |-> "", Label |-> "Arch PC"]
CfgB == [Name |-> "mac", Host |-> "10.0.0.2", User |-> "eva", Port |-> 22,
         KeyFile |-> "~/.ssh/id_mac", Password |-> "", Label |-> "MacBook"]
CfgC == [Name |-> "arch-alt", Host |-> "10.0.0.1", User |-> "root", Port |-> 2222,
         KeyFile |-> "", Password |-> "secret", Label |-> "Arch (root)"]

Configs == {CfgA, CfgB, CfgC}

(***************************************************************************)
(* checker.go                                                              *)
(***************************************************************************)
\* HostStatus{Config: hc, LastCheck: time.Now()}
NewStatus(c, now) ==
    [Config |-> c, Online |-> FALSE, CPU |-> <<>>, Memory |-> <<>>,
     Disk |-> <<>>, Uptime |-> <<>>, LastCheck |-> now, Error |-> ""]

ErrNoAuth == "no auth methods available"
DialCause == "connection refused"
HandshakeCause == "handshake failed: unable to authenticate"

\* os.Getenv("SSH_AUTH_SOCK") and net.Dial("unix", sock): the variable is
\* empty, the dial fails, or the socket accepts
AgentStates == {"unset", "refused", "accepts"}

\* os.ReadFile and ssh.ParsePrivateKey of one key file: the read fails, the
\* read succeeds and the parse fails, or both succeed
KeyStates == {"unreadable", "unparseable", "parses"}

\* the two nested err == nil of one key file: ssh.PublicKeys(signer) is
\* appended when the file is read and parses, and nothing otherwise
Signer(name, k) ==
    IF k = "unreadable" THEN <<>>
    ELSE IF k = "unparseable" THEN <<>>
    ELSE <<name>>

PasswordFirst(c, agent, key, ed, rsa) ==
    (IF c.Password # "" THEN <<"password">> ELSE <<>>)
    \o (IF agent = "accepts" THEN <<"agent">> ELSE <<>>)
    \o (IF c.KeyFile # "" THEN Signer("key_file", key) ELSE <<>>)
    \o Signer("id_ed25519", ed)
    \o Signer("id_rsa", rsa)

\* sshConnect, the authentication methods in the order they are appended
AuthMethods(c, agent, key, ed, rsa) ==
    (IF agent = "accepts" THEN <<"agent">> ELSE <<>>)
    \o (IF c.KeyFile # "" THEN Signer("key_file", key) ELSE <<>>)
    \o Signer("id_ed25519", ed)
    \o Signer("id_rsa", rsa)
    \o (IF c.Password # "" THEN <<"password">> ELSE <<>>)

\* sshConnect up to the check of len(authMethods), for one state of the
\* local system.  The connection to the agent socket stays open.
Resolve(agent, key, ed, rsa) ==
    LET ms == AuthMethods(hc, agent, key, ed, rsa)
    IN  /\ cpc = "auth"
        /\ methods' = ms
        /\ conns' = IF agent = "accepts" THEN conns \cup {"agent"} ELSE conns
        /\ IF ms = <<>>
           THEN /\ connErr' = ErrNoAuth
                /\ failedAt' = "auth"
                /\ cpc' = "connected"
           ELSE /\ cpc' = "dial"
                /\ UNCHANGED <<connErr, failedAt>>
        /\ UNCHANGED <<hc, status, dials, handshakes, cmdLog>>

ResolveAuth ==
    \E agent \in AgentStates, key \in KeyStates, ed \in KeyStates, rsa \in KeyStates :
        Resolve(agent, key, ed, rsa)

\* net.DialTimeout("tcp", addr, 5*time.Second)
Dial ==
    /\ cpc = "dial"
    /\ dials' = dials + 1
    /\ \E ok \in BOOLEAN :
        IF ok
        THEN /\ conns' = conns \cup {"tcp"}
             /\ cpc' = "handshake"
             /\ UNCHANGED <<connErr, failedAt>>
        ELSE /\ connErr' = "dial: " \o DialCause
             /\ failedAt' = "dial"
             /\ cpc' = "connected"
             /\ UNCHANGED conns
    /\ UNCHANGED <<hc, status, methods, handshakes, cmdLog>>

\* conn.Close() of sshConnect
ConnClose(cs) == cs \ {"tcp"}

ClientLeftOpen(cs) == cs

\* the deferred client.Close() of checkHost: the client owns the connection
ClientClose(cs) == cs \ {"tcp"}

\* the deferred session.Close() of runCommand
SessionClose(cs) == cs \ {"session"}

\* the connections one runCommand call leaves open, whether NewSession
\* opened a session or failed
RunCommand(cs, opened) == IF opened THEN SessionClose(cs \cup {"session"}) ELSE cs

\* ssh.NewClientConn: one handshake that tries the methods; conn.Close() on
\* failure.  authMethods goes out of scope when sshConnect returns.
Handshake ==
    /\ cpc = "handshake"
    /\ handshakes' = handshakes + 1
    /\ \E ok \in BOOLEAN :
        IF ok
        THEN UNCHANGED <<connErr, failedAt, conns>>
        ELSE /\ connErr' = "ssh: " \o HandshakeCause
             /\ failedAt' = "handshake"
             /\ conns' = ConnClose(conns)
    /\ cpc' = "connected"
    /\ methods' = <<>>
    /\ UNCHANGED <<hc, status, dials, cmdLog>>

GoesOnAfterError(err) == "load"

\* checkHost, the return on err != nil
AfterConnect(err) == IF err # "" THEN "done" ELSE "load"

OnlineDespiteError(st, err) == [st EXCEPT !.Online = TRUE, !.Error = err]

\* the two assignments on err != nil, and status.Online = true otherwise
StatusAfterConnect(st, err) ==
    IF err # ""
    THEN [st EXCEPT !.Online = FALSE, !.Error = err]
    ELSE [st EXCEPT !.Online = TRUE]

\* checkHost from the return of sshConnect to status.Online = true
Connected ==
    /\ cpc = "connected"
    /\ status' = StatusAfterConnect(status, connErr)
    /\ cpc' = AfterConnect(connErr)
    /\ methods' = <<>>
    /\ UNCHANGED <<hc, connErr, failedAt, conns, dials, handshakes, cmdLog>>

\* what the remote commands print (CombinedOutput), as characters
LoadOuts == {<<>>,
             <<"1", " ", "2", " ", "3", " ", "4", "/", "5", "\n">>,
             <<"{", " ", "1", " ", "2", " ", "3", " ", "}", "\n">>,
             <<"1", " ", "2", "\n">>}
MemoryOuts == {<<>>, <<"\n">>, <<"1", "G", "/", "7", "G", "\n">>}
FallbackOuts == {<<>>, <<"2", "M", "i", "/", "8", "M", "i", "\n">>,
                 <<"s", "h", ":", " ", "e", "r", "r", "o", "r", "\n">>}
DiskOuts == {<<>>, <<"4", "5", "%", "\n">>}
UptimeOuts == {<<>>, <<"u", "p", " ", "3", "d", "\n">>,
               <<"3", "d", ",", " ", "l", "o", "a", "d", " ", "1", "\n">>,
               <<",", " ", "l", "o", "a", "d", "\n">>}

\* one runCommand call: the session is opened and closed inside it
Ran(metric, cmd, err, out) == [metric |-> metric, cmd |-> cmd, err |-> err, out |-> out]

\* "Get load average"
ParseLoad(err, out) ==
    LET parts == Fields(Trim(out, {"{", " ", "}"}))
    IN  IF ~err /\ Len(parts) >= 3
        THEN Sprintf3(parts[1], parts[2], parts[3])
        ELSE <<>>

GetLoad ==
    /\ cpc = "load"
    /\ \E err \in BOOLEAN, out \in LoadOuts :
        /\ status' = [status EXCEPT !.CPU = ParseLoad(err, out)]
        /\ cmdLog' = Append(cmdLog, Ran("load", "cat /proc/loadavg", err, out))
    /\ \E opened \in BOOLEAN : conns' = RunCommand(conns, opened)
    /\ cpc' = "memory"
    /\ UNCHANGED <<hc, methods, connErr, failedAt, dials, handshakes>>

\* "Get memory": whether free gave the value
FreeGives(err, out) == ~err /\ TrimSpace(out) # <<>>

\* "Get memory": whether the vm_stat computation gave the value
VmStatGives(err, out) ==
    ~err /\ TrimSpace(out) # <<>> /\ ~Contains(out, <<"e", "r", "r", "o", "r">>)

\* "Get memory": the vm_stat command runs only when free gave nothing
GetMemory ==
    /\ cpc = "memory"
    /\ \E err \in BOOLEAN, out \in MemoryOuts :
        IF FreeGives(err, out)
        THEN /\ status' = [status EXCEPT !.Memory = TrimSpace(out)]
             /\ cmdLog' = Append(cmdLog, Ran("memory", "free -h", err, out))
        ELSE \E err2 \in BOOLEAN, out2 \in FallbackOuts :
             /\ status' = IF VmStatGives(err2, out2)
                          THEN [status EXCEPT !.Memory = TrimSpace(out2)]
                          ELSE status
             /\ cmdLog' = cmdLog \o <<Ran("memory", "free -h", err, out),
                                      Ran("memory", "vm_stat", err2, out2)>>
    /\ \E opened \in BOOLEAN, again \in BOOLEAN :
            conns' = RunCommand(RunCommand(conns, opened), again)
    /\ cpc' = "disk"
    /\ UNCHANGED <<hc, methods, connErr, failedAt, dials, handshakes>>

DiskOfAnyOutput(err, out) == TrimSpace(out)

\* "Get disk usage"
ParseDisk(err, out) == IF ~err THEN TrimSpace(out) ELSE <<>>

GetDisk ==
    /\ cpc = "disk"
    /\ \E err \in BOOLEAN, out \in DiskOuts :
        /\ status' = [status EXCEPT !.Disk = ParseDisk(err, out)]
        /\ cmdLog' = Append(cmdLog, Ran("disk", "df -h /", err, out))
    /\ \E opened \in BOOLEAN : conns' = RunCommand(conns, opened)
    /\ cpc' = "uptime"
    /\ UNCHANGED <<hc, methods, connErr, failedAt, dials, handshakes>>

\* "Get uptime", with the clean-up of the macOS output
ParseUptime(err, out) ==
    LET u == TrimSpace(out)
    IN  IF err THEN <<>>
        ELSE IF Contains(u, <<"l", "o", "a", "d">>) THEN TrimSpace(BeforeComma(u))
        ELSE u

GetUptime ==
    /\ cpc = "uptime"
    /\ \E err \in BOOLEAN, out \in UptimeOuts :
        /\ status' = [status EXCEPT !.Uptime = ParseUptime(err, out)]
        /\ cmdLog' = Append(cmdLog, Ran("uptime", "uptime -p", err, out))
    /\ \E opened \in BOOLEAN : conns' = RunCommand(conns, opened)
    /\ cpc' = "return"
    /\ UNCHANGED <<hc, methods, connErr, failedAt, dials, handshakes>>

\* return status, and the deferred client.Close()
Return ==
    /\ cpc = "return"
    /\ conns' = ClientClose(conns)
    /\ cpc' = "done"
    /\ UNCHANGED <<hc, status, methods, connErr, failedAt, dials, handshakes, cmdLog>>

\* no check is running
CheckIdle ==
    /\ hc = CfgA
    /\ cpc = "idle"
    /\ status = NewStatus(CfgA, Now(0))
    /\ methods = <<>>
    /\ connErr = ""
    /\ failedAt = ""
    /\ conns = {}
    /\ dials = 0
    /\ handshakes = 0
    /\ cmdLog = <<>>

\* checkHost(c) has been called
CheckStart ==
    /\ hc \in Configs
    /\ cpc = "auth"
    /\ status = NewStatus(hc, Now(clock))
    /\ methods = <<>>
    /\ connErr = ""
    /\ failedAt = ""
    /\ conns = {}
    /\ dials = 0
    /\ handshakes = 0
    /\ cmdLog = <<>>

\* a step of checkHost leaves the rest alone
CheckOnly ==
    UNCHANGED <<storeVars, hosts, fanVars, trackVars, notifyVars, modeVars, memVars,
                lockVars,
                loadVars, webVars, loopVars, ownVars, authVars, histVars, jiraVars>>

CheckNext ==
    \/ CheckOnly /\ ResolveAuth
    \/ CheckOnly /\ Dial
    \/ CheckOnly /\ Handshake
    \/ CheckOnly /\ Connected
    \/ CheckOnly /\ GetLoad
    \/ CheckOnly /\ GetMemory
    \/ CheckOnly /\ GetDisk
    \/ CheckOnly /\ GetUptime
    \/ CheckOnly /\ Return

(***************************************************************************)
(* main.go: checkAllHosts.  Indices start at 1 here and at 0 in the code.  *)
(***************************************************************************)
HostLists == UNION {[1..n -> Configs] : n \in 0..MaxHosts}

\* the metrics checkHost reads from the output of a Linux host
LinuxCPU == ParseLoad(FALSE, <<"1", " ", "2", " ", "3", " ", "4", "/", "5", "\n">>)

LinuxMemory == TrimSpace(<<"1", "G", "/", "7", "G", "\n">>)

LinuxDisk == ParseDisk(FALSE, <<"4", "5", "%", "\n">>)

LinuxUptime == ParseUptime(FALSE, <<"u", "p", " ", "3", "d", "\n">>)

\* what checkHost returns for a host that accepts the session and for one
\* that refuses the dial
CheckHostResult(c, online) ==
    IF online
    THEN [NewStatus(c, Now(0)) EXCEPT
            !.Online = TRUE,
            !.CPU = LinuxCPU,
            !.Memory = LinuxMemory,
            !.Disk = LinuxDisk,
            !.Uptime = LinuxUptime]
    ELSE [NewStatus(c, Now(0)) EXCEPT !.Error = "dial: " \o DialCause]

\* the sequential loop: results[i] = checkHost(h)
SequentialResults(hs, u) == [i \in 1..Len(hs) |-> CheckHostResult(hs[i], u[i])]

\* the zero HostStatus of make([]HostStatus, n)
ZeroStatus ==
    [Config |-> [Name |-> "", Host |-> "", User |-> "", Port |-> 0,
                 KeyFile |-> "", Password |-> "", Label |-> ""],
     Online |-> FALSE, CPU |-> <<>>, Memory |-> <<>>, Disk |-> <<>>,
     Uptime |-> <<>>, LastCheck |-> [wall |-> 0, mono |-> FALSE], Error |-> ""]

\* go func(idx, hc) for the next host
Spawn ==
    /\ fpc = "spawn"
    /\ spawned < Len(hosts)
    /\ spawned' = spawned + 1
    /\ wpc' = [wpc EXCEPT ![spawned + 1] = "running"]
    /\ UNCHANGED <<up, fpc, ch, received, results, arrival>>

\* the first loop is over
Collect ==
    /\ fpc = "spawn"
    /\ spawned = Len(hosts)
    /\ fpc' = "recv"
    /\ UNCHANGED <<up, spawned, wpc, ch, received, results, arrival>>

\* a goroutine: ch <- {idx, checkHost(hc)}; the buffer has room for every host
Work(i) ==
    /\ wpc[i] = "running"
    /\ Len(ch) < Len(hosts)
    /\ ch' = Append(ch, [idx |-> i, status |-> CheckHostResult(hosts[i], up[i])])
    /\ wpc' = [wpc EXCEPT ![i] = "sent"]
    /\ UNCHANGED <<up, fpc, spawned, received, results, arrival>>

SlotOfArrival(r, n) == n + 1

\* results[r.idx] = r.status: the slot of the report received after n others
SlotOf(r, n) == r.idx

\* r := <-ch; results[r.idx] = r.status
Recv ==
    /\ fpc = "recv"
    /\ received < Len(hosts)
    /\ ch # <<>>
    /\ LET r == Head(ch)
       IN  /\ results' = [results EXCEPT ![SlotOf(r, received)] = r.status]
           /\ arrival' = Append(arrival, r.idx)
    /\ ch' = Tail(ch)
    /\ received' = received + 1
    /\ UNCHANGED <<up, fpc, spawned, wpc>>

ReturnAfterFirst ==
    /\ fpc = "recv"
    /\ received >= 1
    /\ fpc' = "done"
    /\ UNCHANGED <<up, spawned, wpc, ch, received, results, arrival>>

\* return results
ReturnResults ==
    /\ fpc = "recv"
    /\ received = Len(hosts)
    /\ fpc' = "done"
    /\ UNCHANGED <<up, spawned, wpc, ch, received, results, arrival>>

\* no fan-out is running
FanIdle ==
    /\ up = <<>>
    /\ fpc = "idle"
    /\ spawned = 0
    /\ wpc = <<>>
    /\ ch = <<>>
    /\ received = 0
    /\ results = <<>>
    /\ arrival = <<>>

\* checkAllHosts(cfg) has made results and ch
FanStart ==
    /\ hosts \in HostLists
    /\ up \in [1..Len(hosts) -> BOOLEAN]
    /\ fpc = "spawn"
    /\ spawned = 0
    /\ wpc = [i \in 1..Len(hosts) |-> "none"]
    /\ ch = <<>>
    /\ received = 0
    /\ results = [i \in 1..Len(hosts) |-> ZeroStatus]
    /\ arrival = <<>>

\* a step of the fan-out leaves the rest alone
FanOnly ==
    UNCHANGED <<storeVars, checkVars, hosts, trackVars, notifyVars, modeVars, memVars,
                lockVars,
                loadVars, webVars, loopVars, ownVars, authVars, histVars, jiraVars>>

FanNext ==
    \/ FanOnly /\ Spawn
    \/ FanOnly /\ Collect
    \/ FanOnly /\ \E i \in 1..Len(hosts) : Work(i)
    \/ FanOnly /\ Recv
    \/ FanOnly /\ ReturnResults

(***************************************************************************)
(* notify.go: StateTracker.  The map prev is a function on the hosts seen. *)
(***************************************************************************)
NoHosts == [h \in {} |-> FALSE]

\* fmt.Sprintf("%s (%s) went DOWN", r.Config.Label, r.Config.Host)
WentDown(c) == c.Label \o " (" \o c.Host \o ") went DOWN"

\* fmt.Sprintf("%s (%s) came UP", r.Config.Label, r.Config.Host)
CameUp(c) == c.Label \o " (" \o c.Host \o ") came UP"

\* go st.notify(hc, state)
NotifyTask(c, state) == [hc |-> c, state |-> state]

SeenAlways(p, key) == TRUE

\* wasOnline, seen := st.prev[key]: seen
Seen(p, key) == key \in DOMAIN p

\* wasOnline, seen := st.prev[key]: wasOnline, false for a missing key
WasOnline(p, key) == IF key \in DOMAIN p THEN p[key] ELSE FALSE

RecordAlone(p, key, online) == [h \in {key} |-> online]

RecordOnlyNew(p, key, online) ==
    [h \in DOMAIN p \cup {key} |-> IF h \in DOMAIN p THEN p[h] ELSE online]

\* st.prev[key] = r.Online
Record(p, key, online) ==
    [h \in DOMAIN p \cup {key} |-> IF h = key THEN online ELSE p[h]]

DownWheneverOffline(wasOnline, online) ==
    IF ~online THEN "down" ELSE IF ~wasOnline THEN "up" ELSE ""

\* the two branches on wasOnline and r.Online: the state token, "" for none
TransitionOf(wasOnline, online) ==
    IF wasOnline /\ ~online THEN "down"
    ELSE IF ~wasOnline /\ online THEN "up"
    ELSE ""

\* one iteration of the loop of Update on the tracker state st
UpdateOne(st, r) ==
    LET key   == r.Config.Host
        seen  == Seen(st.prev, key)
        was   == WasOnline(st.prev, key)
        p     == Record(st.prev, key, r.Online)
        token == IF seen THEN TransitionOf(was, r.Online) ELSE ""
    IN  IF token = ""
        THEN [st EXCEPT !.prev = p]
        ELSE [prev        |-> p,
              transitions |-> Append(st.transitions,
                                     IF token = "down" THEN WentDown(r.Config)
                                     ELSE CameUp(r.Config)),
              started     |-> Append(st.started, NotifyTask(r.Config, token))]

\* the loop of Update over the first n results
RECURSIVE UpdateLoop(_, _, _)
UpdateLoop(p, rs, n) ==
    IF n = 0 THEN [prev |-> p, transitions |-> <<>>, started |-> <<>>]
    ELSE UpdateOne(UpdateLoop(p, rs, n - 1), rs[n])

\* what iteration n of the loop added: its messages, its goroutines, and the
\* flag the map holds for its host when it ends
IterationOf(p, rs, n) ==
    LET before == UpdateLoop(p, rs, n - 1)
        after  == UpdateLoop(p, rs, n)
    IN  [msgs     |-> SubSeq(after.transitions, Len(before.transitions) + 1,
                             Len(after.transitions)),
         started  |-> SubSeq(after.started, Len(before.started) + 1,
                             Len(after.started)),
         recorded |-> after.prev[rs[n].Config.Host]]

\* transitions := tracker.Update(checkAllHosts(cfg)), for the flags u
Update(u) ==
    /\ cycle < MaxCycles
    /\ LET rs  == SequentialResults(hosts, u)
           out == UpdateLoop(prev, rs, Len(rs))
       IN  /\ prev' = out.prev
           /\ transitions' = out.transitions
           /\ tasks' = tasks \o out.started
           /\ outHist' = Append(outHist,
                                [n \in 1..Len(rs) |-> IterationOf(prev, rs, n)])
    /\ upHist' = Append(upHist, u)
    /\ cycle' = cycle + 1

\* NewStateTracker(cfg.Notify)
TrackStart ==
    /\ prev = NoHosts
    /\ transitions = <<>>
    /\ tasks = <<>>
    /\ cycle = 0
    /\ upHist = <<>>
    /\ outHist = <<>>

\* no web server
WebIdle ==
    /\ arrays = <<>>
    /\ poller = [pc |-> "idle", at |-> 0, todo |-> {}, cycle |-> 0]
    /\ wsLatest = 0
    /\ published = <<>>
    /\ reader = [pc |-> "idle", at |-> 0, k |-> 0, out |-> <<>>]

\* no poll loop
LoopIdle ==
    /\ tab = "hosts"
    /\ checking = FALSE
    /\ inflight = 0
    /\ timers = 0
    /\ lpc = "idle"

\* no goroutine has used a tracker
OwnIdle ==
    /\ accesses = {}
    /\ updating = {}

\* sshConnect has not looked at the local system
AuthIdle ==
    env = [seen |-> FALSE, agent |-> "unset", key |-> "unreadable", ed |-> "unreadable",
           rsa |-> "unreadable", list |-> <<>>]

\* no web server with a history
HistIdle ==
    /\ history = <<>>
    /\ hlatest = <<>>
    /\ hmu = FALSE
    /\ adder = [pc |-> "idle", i |-> 0, cycle |-> 0, old |-> <<>>]
    /\ viewer = [pc |-> "idle", results |-> <<>>, i |-> 0, spark |-> <<>>,
                 pct |-> <<>>, out |-> <<>>]
    /\ added = <<>>

\* the zero jiraModel
NoJiraModel ==
    [level |-> "projects", cursor |-> 0, loading |-> FALSE, err |-> "", projects |-> <<>>,
     selProj |-> "", issues |-> <<>>, selIssue |-> <<>>, dispatching |-> FALSE,
     dispatchCursor |-> 0]

\* no TUI
JiraIdle ==
    /\ jm = NoJiraModel
    /\ hcursor = 0
    /\ inbox = {}
    /\ nreq = 0
    /\ search = [id |-> 0, proj |-> ""]
    /\ shown = 0
    /\ spath = ""
    /\ panicked = FALSE

\* no monitor is running, and the memory of the store is not followed
RestIdle ==
    /\ mode = ""
    /\ latest = <<>>
    /\ polls = 0
    /\ heap = <<>>
    /\ slice = [arr |-> 0, len |-> 0, cap |-> 0]
    /\ held = <<>>
    /\ heldVal = <<>>
    /\ calls = <<>>
    /\ mu = [w |-> "", r |-> {}]
    /\ disk = [kind |-> "absent", text |-> <<>>, how |-> "absent", of |-> <<>>]
    /\ made = [called |-> FALSE, nil |-> TRUE, store |-> <<>>, err |-> NoErr]

ModeIdle ==
    /\ RestIdle
    /\ WebIdle
    /\ LoopIdle
    /\ OwnIdle
    /\ AuthIdle
    /\ HistIdle
    /\ JiraIdle

\* a tracker without a notify section, and no goroutine
NotifyIdle ==
    /\ config = [Webhook |-> "", Command |-> ""]
    /\ jobs = <<>>

\* a step of the tracker leaves the rest alone
TrackOnly ==
    UNCHANGED <<storeVars, checkVars, hosts, fanVars, notifyVars, modeVars, memVars,
                lockVars,
                loadVars, webVars, loopVars, ownVars, authVars, histVars, jiraVars>>

TrackNext ==
    \/ TrackOnly /\ \E u \in [1..Len(hosts) -> BOOLEAN] : Update(u)

(***************************************************************************)
(* One poll cycle: results := checkAllHosts(cfg), then                     *)
(* tracker.Update(results), on a tracker that has seen no batch or has     *)
(* seen batches of cfg.Hosts.  The histories upHist and outHist are kept   *)
(* by SpecTracker only.                                                    *)
(***************************************************************************)
\* the maps a tracker can hold between two cycles
TrackerStates == {NoHosts} \cup [{hosts[n].Host : n \in 1..Len(hosts)} -> BOOLEAN]

\* transitions := tracker.Update(results)
PollUpdate ==
    /\ fpc = "done"
    /\ LET out == UpdateLoop(prev, results, Len(results))
       IN  /\ prev' = out.prev
           /\ transitions' = out.transitions
           /\ tasks' = tasks \o out.started
    /\ cycle' = cycle + 1
    /\ fpc' = "updated"
    /\ UNCHANGED <<up, spawned, wpc, ch, received, results, arrival, upHist, outHist>>

\* a step of the update leaves the store and the check alone
PollOnly ==
    UNCHANGED <<storeVars, checkVars, hosts, notifyVars, modeVars, memVars,
                lockVars,
                loadVars, webVars, loopVars, ownVars, authVars, histVars, jiraVars>>

PollNext ==
    \/ FanOnly /\ Spawn
    \/ FanOnly /\ Collect
    \/ FanOnly /\ \E i \in 1..Len(hosts) : Work(i)
    \/ FanOnly /\ Recv
    \/ FanOnly /\ ReturnResults
    \/ PollOnly /\ PollUpdate

PollInit ==
    /\ StoreStart
    /\ CheckIdle
    /\ FanStart
    /\ hosts # <<>>
    /\ prev \in TrackerStates
    /\ transitions = <<>>
    /\ tasks = <<>>
    /\ cycle = 0
    /\ upHist = <<>>
    /\ outHist = <<>>
    /\ NotifyIdle
    /\ ModeIdle

SpecPoll == PollInit /\ [][PollNext]_vars

\* the steps of the goroutine that runs the poll loop; it is scheduled
\* whenever it can run, while a worker may stay in checkHost for ever
PollLoopStep ==
    \/ FanOnly /\ Spawn
    \/ FanOnly /\ Collect
    \/ FanOnly /\ Recv
    \/ FanOnly /\ ReturnResults
    \/ PollOnly /\ PollUpdate

\* the first cycle of a monitor of one or two hosts
PollFairInit ==
    /\ PollInit
    /\ hosts \in {<<CfgA>>, <<CfgA, CfgB>>, <<CfgA, CfgC>>}
    /\ prev = NoHosts

SpecPollFair == PollFairInit /\ [][PollNext]_vars /\ WF_vars(PollLoopStep)

(***************************************************************************)
(* notify.go: the goroutines 'go st.notify(hc, state)'.  A goroutine is    *)
(* "spawned" until it is scheduled, then in webhookNotify while its POST   *)
(* is in flight, then in commandNotify while its command runs.             *)
(***************************************************************************)
\* the host lists whose notifications are followed
NotifyHostLists == {<<CfgA>>, <<CfgA, CfgB>>}

NotifyConfigs ==
    {[Webhook |-> w, Command |-> c] :
        w \in {"", "https://hooks.example/pulse"},
        c \in {"", "notify-send '{label} is {state}'"}}

\* client.Post returns a response, an error, or gives up after the Timeout
PostOutcomes == {"response", "error", "timeout"}

\* exec.Command("sh", "-c", cmd).Run() returns nil or an error
RunOutcomes == {"exit 0", "error"}

NewJob == [pc |-> "spawned", sent |-> <<>>]

\* notify: the first branch taken
FirstStep(cfg) ==
    IF cfg.Webhook # "" THEN "webhook"
    ELSE IF cfg.Command # "" THEN "command"
    ELSE "done"

RetryAfterWebhook(cfg, outcome) ==
    IF outcome # "response" THEN "webhook"
    ELSE IF cfg.Command # "" THEN "command" ELSE "done"

CommandOnlyAfterResponse(cfg, outcome) ==
    IF outcome = "response" /\ cfg.Command # "" THEN "command" ELSE "done"

\* notify: what follows webhookNotify; the result of client.Post is dropped
AfterWebhook(cfg, outcome) == IF cfg.Command # "" THEN "command" ELSE "done"

\* tracker.Update(checkAllHosts(cfg)) for the flags u; the goroutines it
\* starts have not run when it returns
NotifyUpdate(u) ==
    /\ cycle < MaxCycles
    /\ LET out == UpdateLoop(prev, SequentialResults(hosts, u), Len(hosts))
       IN  /\ Len(tasks) + Len(out.started) <= MaxJobs
           /\ prev' = out.prev
           /\ transitions' = out.transitions
           /\ tasks' = tasks \o out.started
           /\ jobs' = jobs \o [k \in 1..Len(out.started) |-> NewJob]
    /\ cycle' = cycle + 1
    /\ UNCHANGED <<upHist, outHist, config>>

\* goroutine k is scheduled and enters notify
StartNotify(k) ==
    /\ jobs[k].pc = "spawned"
    /\ jobs' = [jobs EXCEPT ![k].pc = FirstStep(config)]
    /\ UNCHANGED <<trackVars, config>>

\* webhookNotify of goroutine k: one client.Post, whatever comes of it
WebhookNotify(k) ==
    /\ jobs[k].pc = "webhook"
    /\ \E outcome \in PostOutcomes :
        jobs' = [jobs EXCEPT
                    ![k].sent = Append(@, [kind |-> "POST", to |-> config.Webhook,
                                           hc |-> tasks[k].hc, state |-> tasks[k].state,
                                           outcome |-> outcome]),
                    ![k].pc = AfterWebhook(config, outcome)]
    /\ UNCHANGED <<trackVars, config>>

\* commandNotify of goroutine k: one sh -c, whatever comes of it
CommandNotify(k) ==
    /\ jobs[k].pc = "command"
    /\ \E outcome \in RunOutcomes :
        jobs' = [jobs EXCEPT
                    ![k].sent = Append(@, [kind |-> "sh", to |-> config.Command,
                                           hc |-> tasks[k].hc, state |-> tasks[k].state,
                                           outcome |-> outcome]),
                    ![k].pc = "done"]
    /\ UNCHANGED <<trackVars, config>>

\* a step of the tracker or of a goroutine leaves the rest alone
NotifyOnly ==
    UNCHANGED <<storeVars, checkVars, hosts, fanVars, modeVars, memVars,
                lockVars,
                loadVars, webVars, loopVars, ownVars, authVars, histVars, jiraVars>>

NotifyNext ==
    \/ NotifyOnly /\ \E u \in [1..Len(hosts) -> BOOLEAN] : NotifyUpdate(u)
    \/ NotifyOnly /\ \E k \in 1..Len(jobs) : StartNotify(k)
    \/ NotifyOnly /\ \E k \in 1..Len(jobs) : WebhookNotify(k)
    \/ NotifyOnly /\ \E k \in 1..Len(jobs) : CommandNotify(k)

NotifyInit ==
    /\ StoreStart
    /\ CheckIdle
    /\ hosts \in NotifyHostLists
    /\ FanIdle
    /\ TrackStart
    /\ config \in NotifyConfigs
    /\ jobs = <<>>
    /\ ModeIdle

SpecNotify == NotifyInit /\ [][NotifyNext]_vars

\* a step of a notify goroutine that has been started with go
GoroutineStep ==
    \/ NotifyOnly /\ \E k \in 1..Len(jobs) : StartNotify(k)
    \/ NotifyOnly /\ \E k \in 1..Len(jobs) : WebhookNotify(k)
    \/ NotifyOnly /\ \E k \in 1..Len(jobs) : CommandNotify(k)

\* the process goes on running and the scheduler runs every goroutine; the
\* POST ends by the Timeout of its client at the latest
SpecNotifyFair == NotifyInit /\ [][NotifyNext]_vars /\ WF_vars(GoroutineStep)

(***************************************************************************)
(* dispatch.go on Go's memory: s.Assignments is a slice header over a      *)
(* backing array.  Assign and UpdateStatus write cells of the array,       *)
(* Remove shifts cells within it, append writes the next free cell or      *)
(* moves to a larger array, and All copies into an array of its own.  The  *)
(* variable Assignments is the content the store is meant to have.         *)
(***************************************************************************)
NilSlice == [arr |-> 0, len |-> 0, cap |-> 0]

\* the elements a slice header gives access to
View(h, sl) == IF sl.len = 0 THEN <<>> ELSE SubSeq(h[sl.arr], 1, sl.len)

\* the zero Assignment of a fresh cell
ZeroAssignment ==
    [ID |-> "", IssueKey |-> "", Summary |-> "", Target |-> "", Status |-> "",
     CreatedAt |-> [wall |-> 0, mono |-> FALSE],
     UpdatedAt |-> [wall |-> 0, mono |-> FALSE], Note |-> ""]

\* make([]Assignment, n, c) holding the elements es
NewArray(es, c) == [i \in 1..c |-> IF i <= Len(es) THEN es[i] ELSE ZeroAssignment]

\* the capacities append may give a full slice: at least one more cell, and
\* the runtime usually doubles
GrownCaps(sl) == {sl.len + 1, IF sl.cap = 0 THEN 1 ELSE 2 * sl.cap}

\* append(sl, a) with the capacity c to grow to when sl is full
AppendTo(h, sl, a, c) ==
    IF sl.len < sl.cap
    THEN [heap  |-> [h EXCEPT ![sl.arr][sl.len + 1] = a],
          slice |-> [sl EXCEPT !.len = sl.len + 1]]
    ELSE [heap  |-> Append(h, NewArray(Append(View(h, sl), a), c)),
          slice |-> [arr |-> Len(h) + 1, len |-> sl.len + 1, cap |-> c]]

\* Store.Assign on the array
MemAssign(issueKey, summary, target) ==
    /\ Assign(issueKey, summary, target)
    /\ LET a == NewAssignment(issueKey, summary, target, clock)
           i == IndexOfPair(View(heap, slice), issueKey, target)
       IN  IF i > 0
           THEN /\ heap' = [heap EXCEPT ![slice.arr][i] = a]
                /\ slice' = slice
           ELSE \E c \in GrownCaps(slice) :
                    /\ heap' = AppendTo(heap, slice, a, c).heap
                    /\ slice' = AppendTo(heap, slice, a, c).slice
    /\ UNCHANGED <<held, heldVal>>

\* Store.UpdateStatus on the array
MemUpdateStatus(id, stat, note) ==
    /\ UpdateStatus(id, stat, note)
    /\ LET i == IndexOfID(View(heap, slice), id)
       IN  heap' = IF i > 0
                   THEN [heap EXCEPT ![slice.arr][i].Status = stat,
                                     ![slice.arr][i].Note = note,
                                     ![slice.arr][i].UpdatedAt = Now(clock)]
                   ELSE heap
    /\ UNCHANGED <<slice, held, heldVal>>

\* append(s.Assignments[:i], s.Assignments[i+1:]...): the cells after i are
\* copied one place down in the same array, and the last cell keeps its
\* old content beyond the new length
ShiftDown(cells, i, n) ==
    [j \in 1..Len(cells) |-> IF j >= i /\ j < n THEN cells[j + 1] ELSE cells[j]]

\* Store.Remove on the array
MemRemove(id) ==
    /\ Remove(id)
    /\ LET i == IndexOfID(View(heap, slice), id)
       IN  IF i > 0
           THEN /\ heap' = [heap EXCEPT ![slice.arr] = ShiftDown(@, i, slice.len)]
                /\ slice' = [slice EXCEPT !.len = slice.len - 1]
           ELSE UNCHANGED <<heap, slice>>
    /\ UNCHANGED <<held, heldVal>>

AllShares(h, sl) == [heap |-> h, out |-> sl]

\* out := make([]Assignment, len(s.Assignments)); copy(out, s.Assignments)
AllCopy(h, sl) ==
    [heap |-> Append(h, NewArray(View(h, sl), sl.len)),
     out  |-> [arr |-> Len(h) + 1, len |-> sl.len, cap |-> sl.len]]

\* Store.All, and the caller keeps the list
MemAll ==
    /\ Len(held) < MaxHeld
    /\ LET r == AllCopy(heap, slice)
       IN  /\ heap' = r.heap
           /\ held' = Append(held, r.out)
           /\ heldVal' = Append(heldVal, View(r.heap, r.out))
           /\ ret' = [op |-> "All", args |-> <<>>, err |-> NoErr,
                      val |-> View(r.heap, r.out)]
    /\ UNCHANGED <<Assignments, file, clock, slice>>

\* what a caller writes into an element of its list
Edited(a) == [a EXCEPT !.Note = "edited", !.Status = StatusFailed]

\* the caller of All assigns to element i of the list j it was given; one
\* assignment to a list is followed
CallerWrites(j, i) ==
    /\ \A e \in 1..Len(heldVal[j]) : heldVal[j][e].Note # "edited"
    /\ heap' = [heap EXCEPT ![held[j].arr][i] = Edited(@)]
    /\ heldVal' = [heldVal EXCEPT ![j][i] = Edited(@)]
    /\ UNCHANGED <<storeVars, slice, held>>

\* the issues and targets assigned while the memory is followed
MemPairs == {<<"PROJ-1", "hostA">>, <<"PROJ-2", "hostA">>, <<"PROJ-1", "hostB">>}

\* the ids UpdateStatus and Remove are called with: those of the records
MemIDs == {Assignments[i].ID : i \in 1..Len(Assignments)}

MemOnly ==
    UNCHANGED <<checkVars, hosts, fanVars, trackVars, notifyVars, modeVars,
                lockVars,
                loadVars, webVars, loopVars, ownVars, authVars, histVars, jiraVars>>

MemNext ==
    \/ MemOnly /\ \E p \in MemPairs : MemAssign(p[1], "Fix bug", p[2])
    \/ MemOnly /\ \E id \in MemIDs, st \in StatusArgs, n \in Notes : MemUpdateStatus(id, st, n)
    \/ MemOnly /\ \E id \in MemIDs : MemRemove(id)
    \/ MemOnly /\ MemAll
    \/ MemOnly /\ \E j \in 1..Len(held) : \E i \in 1..held[j].len : CallerWrites(j, i)

(***************************************************************************)
(* dispatch.go under concurrent callers.  Every method takes s.mu first    *)
(* and releases it on return; between the two it reads and writes          *)
(* s.Assignments one step at a time.                                       *)
(***************************************************************************)
Callers == {"c1", "c2"}

Writers == {"Assign", "UpdateStatus", "Remove"}

Readers == {"ForTarget", "All", "Save"}

\* the summary each caller assigns, which tells their records apart
SummaryOf(c) == IF c = "c1" THEN "Fix bug" ELSE "Fix bug now"

\* the calls a caller makes: the operation and its arguments
CallsOf(c) ==
    {[op |-> "Assign", args |-> <<"PROJ-1", SummaryOf(c), t>>] : t \in Targets}
    \cup {[op |-> "UpdateStatus", args |-> <<ID("PROJ-1", "hostA"), StatusDone, "blocked">>],
          [op |-> "Remove", args |-> <<ID("PROJ-1", "hostA")>>],
          [op |-> "ForTarget", args |-> <<"hostA">>],
          [op |-> "All", args |-> <<>>],
          [op |-> "Save", args |-> <<>>]}

\* a caller outside the store
NoCall ==
    [op |-> "", args |-> <<>>, pc |-> "idle", i |-> 0, a |-> ZeroAssignment,
     out |-> <<>>, snap |-> <<>>, err |-> NoErr]

LockAlways(m) == TRUE

\* s.mu.Lock(): no writer and no reader holds the mutex
CanLock(m) == m.w = "" /\ m.r = {}

RLockAlways(m) == TRUE

\* s.mu.RLock(): no writer holds the mutex
CanRLock(m) == m.w = ""

\* the first statement of each method after the lock
FirstPC(op) ==
    CASE op = "Assign"       -> "new"
      [] op = "UpdateStatus" -> "find"
      [] op = "Remove"       -> "find"
      [] op = "ForTarget"    -> "read"
      [] op = "All"          -> "make"
      [] op = "Save"         -> "marshal"

\* a caller calls a method and reaches its first line
Call(c) ==
    /\ calls[c].pc = "idle"
    /\ \E k \in CallsOf(c) :
        calls' = [calls EXCEPT ![c] = [NoCall EXCEPT !.op = k.op, !.args = k.args,
                                                      !.pc = "lock"]]
    /\ UNCHANGED <<storeVars, mu>>

\* s.mu.Lock() or s.mu.RLock() returns; snap is the content at that moment
Acquire(c) ==
    /\ calls[c].pc = "lock"
    /\ IF calls[c].op \in Writers
       THEN CanLock(mu) /\ mu' = [mu EXCEPT !.w = c]
       ELSE CanRLock(mu) /\ mu' = [mu EXCEPT !.r = @ \cup {c}]
    /\ calls' = [calls EXCEPT ![c].pc = FirstPC(calls[c].op),
                              ![c].snap = Assignments]
    /\ UNCHANGED storeVars

\* Assign: the Assignment literal, with two readings of the clock
AssignNew(c) ==
    /\ calls[c].pc = "new"
    /\ clock + 2 <= MaxClock
    /\ calls' = [calls EXCEPT
                    ![c].a = NewAssignment(calls[c].args[1], calls[c].args[2],
                                           calls[c].args[3], clock),
                    ![c].pc = "find"]
    /\ clock' = clock + 2
    /\ UNCHANGED <<Assignments, file, ret, mu>>

\* the loops of Assign, UpdateStatus and Remove up to the match
Find(c) ==
    /\ calls[c].pc = "find"
    /\ LET i == IF calls[c].op = "Assign"
                THEN IndexOfPair(Assignments, calls[c].args[1], calls[c].args[3])
                ELSE IndexOfID(Assignments, calls[c].args[1])
       IN  calls' = [calls EXCEPT
                        ![c].i = i,
                        ![c].pc = CASE calls[c].op = "Assign" -> "put"
                                    [] i = 0 -> "unlock"
                                    [] calls[c].op = "Remove" -> "splice"
                                    [] OTHER -> "status",
                        ![c].err = IF i = 0 /\ calls[c].op # "Assign"
                                   THEN ErrNotFound ELSE NoErr]
    /\ UNCHANGED <<storeVars, mu>>

\* Assign: s.Assignments[i] = a, or the append
AssignPut(c) ==
    /\ calls[c].pc = "put"
    /\ Assignments' = IF calls[c].i > 0 /\ calls[c].i <= Len(Assignments)
                      THEN [Assignments EXCEPT ![calls[c].i] = calls[c].a]
                      ELSE Append(Assignments, calls[c].a)
    /\ calls' = [calls EXCEPT ![c].pc = "unlock", ![c].out = <<calls[c].a>>]
    /\ UNCHANGED <<file, clock, ret, mu>>

\* UpdateStatus: the three assignments to the record, one at a time
UpdateField(c) ==
    /\ calls[c].pc \in {"status", "note", "time"}
    /\ calls[c].pc = "time" => clock + 1 <= MaxClock
    /\ LET i == calls[c].i
       IN  Assignments' =
                IF i > Len(Assignments) THEN Assignments
                ELSE CASE calls[c].pc = "status" ->
                            [Assignments EXCEPT ![i].Status = calls[c].args[2]]
                       [] calls[c].pc = "note" ->
                            [Assignments EXCEPT ![i].Note = calls[c].args[3]]
                       [] calls[c].pc = "time" ->
                            [Assignments EXCEPT ![i].UpdatedAt = Now(clock)]
    /\ clock' = IF calls[c].pc = "time" THEN clock + 1 ELSE clock
    /\ calls' = [calls EXCEPT ![c].pc = CASE calls[c].pc = "status" -> "note"
                                           [] calls[c].pc = "note" -> "time"
                                           [] calls[c].pc = "time" -> "unlock"]
    /\ UNCHANGED <<file, ret, mu>>

\* Remove: the append that closes the gap
Splice(c) ==
    /\ calls[c].pc = "splice"
    /\ LET i == calls[c].i
       IN  Assignments' = IF i > Len(Assignments) THEN Assignments
                          ELSE SubSeq(Assignments, 1, i - 1) \o
                               SubSeq(Assignments, i + 1, Len(Assignments))
    /\ calls' = [calls EXCEPT ![c].pc = "unlock"]
    /\ UNCHANGED <<file, clock, ret, mu>>

\* All: out := make([]Assignment, len(s.Assignments))
AllMake(c) ==
    /\ calls[c].pc = "make"
    /\ calls' = [calls EXCEPT ![c].out = [j \in 1..Len(Assignments) |-> ZeroAssignment],
                              ![c].pc = "read"]
    /\ UNCHANGED <<storeVars, mu>>

\* ForTarget and All: one iteration of the loop, or of copy
ReadOne(c) ==
    /\ calls[c].pc = "read"
    /\ LET i    == calls[c].i + 1
           last == IF calls[c].op = "All"
                   THEN IF Len(calls[c].out) < Len(Assignments)
                        THEN Len(calls[c].out) ELSE Len(Assignments)
                   ELSE Len(Assignments)
       IN  IF i > last
           THEN calls' = [calls EXCEPT ![c].pc = "unlock"]
           ELSE calls' = [calls EXCEPT
                    ![c].i = i,
                    ![c].out = CASE calls[c].op = "All" ->
                                    [calls[c].out EXCEPT ![i] = Assignments[i]]
                                 [] Assignments[i].Target = calls[c].args[1] ->
                                    Append(calls[c].out, Assignments[i])
                                 [] OTHER -> calls[c].out]
    /\ UNCHANGED <<storeVars, mu>>

\* Save: json.MarshalIndent(s), then os.WriteFile
SaveStep(c) ==
    /\ calls[c].pc \in {"marshal", "write"}
    /\ IF calls[c].pc = "marshal"
       THEN /\ calls' = [calls EXCEPT ![c].out = Assignments, ![c].pc = "write"]
            /\ UNCHANGED file
       ELSE /\ file' = FileOf(MarshalStore(calls[c].out))
            /\ calls' = [calls EXCEPT ![c].pc = "unlock"]
    /\ UNCHANGED <<Assignments, clock, ret, mu>>

\* the deferred Unlock or RUnlock, and the return
Release(c) ==
    /\ calls[c].pc = "unlock"
    /\ mu' = IF calls[c].op \in Writers
             THEN [mu EXCEPT !.w = IF mu.w = c THEN "" ELSE mu.w]
             ELSE [mu EXCEPT !.r = @ \ {c}]
    /\ calls' = [calls EXCEPT ![c] = NoCall]
    /\ UNCHANGED storeVars

LocksOnly ==
    UNCHANGED <<checkVars, hosts, fanVars, trackVars, notifyVars, modeVars, memVars,
                loadVars, webVars, loopVars, ownVars, authVars, histVars, jiraVars>>

LocksNext ==
    \/ LocksOnly /\ \E c \in Callers : Call(c)
    \/ LocksOnly /\ \E c \in Callers : Acquire(c)
    \/ LocksOnly /\ \E c \in Callers : AssignNew(c)
    \/ LocksOnly /\ \E c \in Callers : Find(c)
    \/ LocksOnly /\ \E c \in Callers : AssignPut(c)
    \/ LocksOnly /\ \E c \in Callers : UpdateField(c)
    \/ LocksOnly /\ \E c \in Callers : Splice(c)
    \/ LocksOnly /\ \E c \in Callers : AllMake(c)
    \/ LocksOnly /\ \E c \in Callers : ReadOne(c)
    \/ LocksOnly /\ \E c \in Callers : SaveStep(c)
    \/ LocksOnly /\ \E c \in Callers : Release(c)

LocksInit ==
    /\ StoreStart
    /\ CheckIdle
    /\ hosts = <<>>
    /\ FanIdle
    /\ TrackStart
    /\ NotifyIdle
    /\ mode = ""
    /\ latest = <<>>
    /\ polls = 0
    /\ heap = <<>>
    /\ slice = NilSlice
    /\ held = <<>>
    /\ heldVal = <<>>
    /\ calls = [c \in Callers |-> NoCall]
    /\ mu = [w |-> "", r |-> {}]
    /\ disk = [kind |-> "absent", text |-> <<>>, how |-> "absent", of |-> <<>>]
    /\ made = [called |-> FALSE, nil |-> TRUE, store |-> <<>>, err |-> NoErr]
    /\ WebIdle
    /\ LoopIdle
    /\ OwnIdle
    /\ AuthIdle
    /\ HistIdle
    /\ JiraIdle

SpecLocks == LocksInit /\ [][LocksNext]_vars

(***************************************************************************)
(* NewStore on the text of the file.  The text is a sequence of JSON       *)
(* tokens: the six punctuation marks, null, and string literals; a string  *)
(* literal is plain text v, or the RFC 3339 text of the instant t.         *)
(* json.Unmarshal first checks the syntax of the whole text and then       *)
(* decodes it into the Store, field by field.                              *)
(***************************************************************************)
Punct(c) == [k |-> c, v |-> "", t |-> -1]

Str(x) == [k |-> "str", v |-> x, t |-> -1]

TimeStr(w) == [k |-> "str", v |-> "", t |-> w]

Null == [k |-> "null", v |-> "", t |-> -1]

\* the fields of Assignment in the order of the struct
FieldOrder == <<"id", "issue_key", "summary", "target", "status",
                "created_at", "updated_at", "note">>

TimeFields == {"created_at", "updated_at"}

\* the elements of a list with a comma between them
RECURSIVE Joined(_)
Joined(parts) ==
    IF parts = <<>> THEN <<>>
    ELSE IF Len(parts) = 1 THEN parts[1]
    ELSE parts[1] \o <<Punct(",")>> \o Joined(Tail(parts))

\* the text json.MarshalIndent writes for one marshalled Assignment
TextOfAssignment(o) ==
    LET present == SelectSeq(FieldOrder, LAMBDA f : f \in DOMAIN o)
        member(f) == <<Str(f), Punct(":"),
                       IF f \in TimeFields THEN TimeStr(o[f].rfc3339) ELSE Str(o[f])>>
    IN  <<Punct("{")>> \o Joined([n \in 1..Len(present) |-> member(present[n])])
                  \o <<Punct("}")>>

\* the text of the store; a nil slice is written as null
TextOfStore(doc, isNil) ==
    <<Punct("{"), Str("assignments"), Punct(":")>> \o
    (IF isNil THEN <<Null>>
     ELSE <<Punct("[")>> \o
          Joined([n \in 1..Len(doc.assignments) |->
                    TextOfAssignment(doc.assignments[n])]) \o
          <<Punct("]")>>) \o
    <<Punct("}")>>

\* the scanner of encoding/json: the index after the value that starts at
\* i, or 0 when there is no value there
RECURSIVE EndOfValue(_, _), EndOfElements(_, _), EndOfMembers(_, _)
EndOfValue(ts, i) ==
    IF i > Len(ts) THEN 0
    ELSE CASE ts[i].k \in {"str", "null"} -> i + 1
           [] ts[i].k = "[" ->
                IF i + 1 <= Len(ts) /\ ts[i + 1].k = "]" THEN i + 2
                ELSE EndOfElements(ts, i + 1)
           [] ts[i].k = "{" ->
                IF i + 1 <= Len(ts) /\ ts[i + 1].k = "}" THEN i + 2
                ELSE EndOfMembers(ts, i + 1)
           [] OTHER -> 0

EndOfElements(ts, i) ==
    LET e == EndOfValue(ts, i)
    IN  IF e = 0 \/ e > Len(ts) THEN 0
        ELSE IF ts[e].k = "," THEN EndOfElements(ts, e + 1)
        ELSE IF ts[e].k = "]" THEN e + 1
        ELSE 0

EndOfMembers(ts, i) ==
    IF i + 1 > Len(ts) \/ ts[i].k # "str" \/ ts[i + 1].k # ":" THEN 0
    ELSE LET e == EndOfValue(ts, i + 2)
         IN  IF e = 0 \/ e > Len(ts) THEN 0
             ELSE IF ts[e].k = "," THEN EndOfMembers(ts, e + 1)
             ELSE IF ts[e].k = "}" THEN e + 1
             ELSE 0

\* checkValid: the text is one JSON value and nothing else
Valid(ts) == EndOfValue(ts, 1) = Len(ts) + 1

\* in a valid text, the members of the object whose first key is at i: the
\* key and the index of the value
RECURSIVE MembersFrom(_, _)
MembersFrom(ts, i) ==
    IF ts[i].k = "}" THEN <<>>
    ELSE LET e == EndOfValue(ts, i + 2)
         IN  <<[key |-> ts[i].v, at |-> i + 2]>> \o
             (IF ts[e].k = "," THEN MembersFrom(ts, e + 1) ELSE <<>>)

\* in a valid text, the indices of the elements of the array whose first
\* element is at i
RECURSIVE ElementsFrom(_, _)
ElementsFrom(ts, i) ==
    IF ts[i].k = "]" THEN <<>>
    ELSE LET e == EndOfValue(ts, i)
         IN  <<i>> \o (IF ts[e].k = "," THEN ElementsFrom(ts, e + 1) ELSE <<>>)

\* the field of Assignment a JSON key names
GoField(key) ==
    CASE key = "id" -> "ID"
      [] key = "issue_key" -> "IssueKey"
      [] key = "summary" -> "Summary"
      [] key = "target" -> "Target"
      [] key = "status" -> "Status"
      [] key = "note" -> "Note"
      [] key = "created_at" -> "CreatedAt"
      [] key = "updated_at" -> "UpdatedAt"
      [] OTHER -> ""

\* one member decoded into the Assignment acc.a: null leaves the field, a
\* string goes into a string field, the text of an instant into a time
\* field, and anything else is an error; an unknown key is skipped
DecodeMember(ts, m, acc) ==
    LET tok == ts[m.at]
        f   == GoField(m.key)
    IN  IF f = "" \/ tok.k = "null" THEN acc
        ELSE IF tok.k # "str" THEN [acc EXCEPT !.ok = FALSE]
        ELSE IF m.key \in TimeFields
        THEN IF tok.t >= 0
             THEN [acc EXCEPT !.a = [@ EXCEPT ![f] = [wall |-> tok.t, mono |-> FALSE]]]
             ELSE [acc EXCEPT !.ok = FALSE]
        ELSE [acc EXCEPT !.a = [@ EXCEPT ![f] = tok.v]]

RECURSIVE DecodeMembers(_, _, _)
DecodeMembers(ts, ms, n) ==
    IF n = 0 THEN [ok |-> TRUE, a |-> ZeroAssignment]
    ELSE DecodeMember(ts, ms[n], DecodeMembers(ts, ms, n - 1))

\* the value at i decoded into an Assignment
DecodeAssignment(ts, i) ==
    IF ts[i].k = "null" THEN [ok |-> TRUE, a |-> ZeroAssignment]
    ELSE IF ts[i].k # "{" THEN [ok |-> FALSE, a |-> ZeroAssignment]
    ELSE LET ms == MembersFrom(ts, i + 1)
         IN  DecodeMembers(ts, ms, Len(ms))

\* the value at i decoded into []Assignment
DecodeList(ts, i) ==
    IF ts[i].k = "null" THEN [ok |-> TRUE, as |-> <<>>]
    ELSE IF ts[i].k # "[" THEN [ok |-> FALSE, as |-> <<>>]
    ELSE LET es == ElementsFrom(ts, i + 1)
             ds == [n \in 1..Len(es) |-> DecodeAssignment(ts, es[n])]
         IN  [ok |-> \A n \in 1..Len(es) : ds[n].ok,
              as |-> [n \in 1..Len(es) |-> ds[n].a]]

\* the members of the top object decoded into the Store: the last
\* "assignments" member gives the slice
RECURSIVE DecodeStoreMembers(_, _, _)
DecodeStoreMembers(ts, ms, n) ==
    IF n = 0 THEN [ok |-> TRUE, as |-> <<>>]
    ELSE LET before == DecodeStoreMembers(ts, ms, n - 1)
         IN  IF ms[n].key # "assignments" THEN before
             ELSE LET d == DecodeList(ts, ms[n].at)
                  IN  [ok |-> before.ok /\ d.ok, as |-> d.as]

\* json.Unmarshal(data, s) on an empty Store
Unmarshal(ts) ==
    IF ~Valid(ts) THEN [ok |-> FALSE, as |-> <<>>]
    ELSE IF ts[1].k = "null" THEN [ok |-> TRUE, as |-> <<>>]
    ELSE IF ts[1].k # "{" THEN [ok |-> FALSE, as |-> <<>>]
    ELSE LET ms == MembersFrom(ts, 2)
         IN  DecodeStoreMembers(ts, ms, Len(ms))

ErrParse == "parse dispatch file"

ParseErrorDropped(d) == [called |-> TRUE, nil |-> FALSE, store |-> d.as, err |-> NoErr]

\* the two returns of NewStore after the file was read
AfterUnmarshal(d) ==
    IF d.ok THEN [called |-> TRUE, nil |-> FALSE, store |-> d.as, err |-> NoErr]
    ELSE [called |-> TRUE, nil |-> TRUE, store |-> <<>>, err |-> ErrParse]

\* what NewStore(path) returns for the file d at the path
NewStoreOf(d) ==
    IF d.kind # "file"
    THEN [called |-> TRUE, nil |-> FALSE, store |-> <<>>, err |-> NoErr]
    ELSE AfterUnmarshal(Unmarshal(d.text))

\* NewStore(path): a file that cannot be read, absent or not, gives the
\* empty store
NewStore ==
    /\ ~made.called
    /\ made' = NewStoreOf(disk)
    /\ UNCHANGED disk

\* the stores whose files are read
SavedStores ==
    LET a1 == NewAssignment("PROJ-1", "Fix bug", "hostA", 0)
        a2 == [NewAssignment("PROJ-2", "Fix bug now", "hostB", 2) EXCEPT
                    !.Status = StatusDone, !.Note = "blocked", !.UpdatedAt = Now(5)]
    IN  {<<>>, <<a1>>, <<a2>>, <<a1, a2>>}

SavedText(as) == TextOfStore(MarshalStore(as), FALSE)

\* a text without its token n
Without(ts, n) == SubSeq(ts, 1, n - 1) \o SubSeq(ts, n + 1, Len(ts))

\* the files NewStore meets: none, one that cannot be read, one that Save
\* wrote, one another program wrote with the same records, and files with
\* damage: cut short, a token lost, a time that is no time, a wrong type
DiskStates ==
    {[kind |-> "absent", text |-> <<>>, how |-> "absent", of |-> <<>>],
     [kind |-> "unreadable", text |-> <<>>, how |-> "unreadable", of |-> <<>>]}
    \cup {[kind |-> "file", text |-> SavedText(as), how |-> "saved", of |-> as] :
            as \in SavedStores}
    \cup {[kind |-> "file", text |-> x, how |-> "foreign", of |-> <<>>] :
            x \in {TextOfStore(MarshalStore(<<>>), TRUE), <<Null>>, <<Punct("{"), Punct("}")>>,
                   <<Punct("{"), Str("version"), Punct(":"), Str("1"), Punct("}")>>}}
    \cup {[kind |-> "file",
           text |-> <<Punct("{"), Str("version"), Punct(":"), Punct("["), Str("1"), Punct("]"), Punct(",")>>
                    \o Tail(SavedText(as)),
           how |-> "foreign", of |-> as] : as \in SavedStores}
    \cup UNION {{[kind |-> "file", text |-> SubSeq(SavedText(as), 1, n),
                  how |-> "truncated", of |-> as] : n \in 0..(Len(SavedText(as)) - 1)} :
                as \in SavedStores}
    \cup UNION {{[kind |-> "file", text |-> Without(SavedText(as), n),
                  how |-> "dropped", of |-> as] : n \in 1..Len(SavedText(as))} :
                as \in SavedStores}
    \cup UNION {{[kind |-> "file",
                  text |-> [SavedText(as) EXCEPT ![n] = Str("yesterday")],
                  how |-> "badtime", of |-> as] :
                    n \in {i \in 1..Len(SavedText(as)) : SavedText(as)[i].t >= 0}} :
                as \in SavedStores}
    \cup {[kind |-> "file", text |-> x, how |-> "wrongtype", of |-> <<>>] :
            x \in {<<Punct("["), Punct("]")>>, <<Str("assignments")>>,
                   <<Punct("{"), Str("assignments"), Punct(":"), Str("none"), Punct("}")>>,
                   <<Punct("{"), Str("assignments"), Punct(":"), Punct("["), Str("x"), Punct("]"), Punct("}")>>}}

LoadOnly ==
    UNCHANGED <<storeVars, checkVars, hosts, fanVars, trackVars, notifyVars, modeVars,
                memVars, lockVars, webVars, loopVars, ownVars, authVars, histVars, jiraVars>>

LoadNext ==
    \/ LoadOnly /\ NewStore

LoadInit ==
    /\ StoreStart
    /\ CheckIdle
    /\ hosts = <<>>
    /\ FanIdle
    /\ TrackStart
    /\ NotifyIdle
    /\ mode = ""
    /\ latest = <<>>
    /\ polls = 0
    /\ heap = <<>>
    /\ slice = NilSlice
    /\ held = <<>>
    /\ heldVal = <<>>
    /\ calls = <<>>
    /\ mu = [w |-> "", r |-> {}]
    /\ disk \in DiskStates
    /\ made = [called |-> FALSE, nil |-> TRUE, store |-> <<>>, err |-> NoErr]
    /\ WebIdle
    /\ LoopIdle
    /\ OwnIdle
    /\ AuthIdle
    /\ HistIdle
    /\ JiraIdle

SpecLoad == LoadInit /\ [][LoadNext]_vars

(***************************************************************************)
(* Save on the text of the file.  os.WriteFile opens s.path with O_TRUNC,  *)
(* writes data in one or more pieces and closes; there is no temporary     *)
(* file and no rename.  The process can be killed between any two of these *)
(* steps; NewStore is what the next process does with the file.  disk.was  *)
(* is the file before the Save, disk.of the store being saved.             *)
(***************************************************************************)
\* the file before any Save, or as a completed Save of the store as left it
OnDisk(as) ==
    [kind |-> "file", text |-> SavedText(as), how |-> "saved", of |-> as,
     was |-> [kind |-> "file", text |-> SavedText(as)]]

NoDisk ==
    [kind |-> "absent", text |-> <<>>, how |-> "absent", of |-> <<>>,
     was |-> [kind |-> "absent", text |-> <<>>]]

\* Save up to the open of os.WriteFile: the file exists and is empty
WriteFileOpen ==
    /\ ~made.called
    /\ disk.how \in {"absent", "saved"}
    /\ disk' = [kind |-> "file", text |-> <<>>, how |-> "writing", of |-> Assignments,
                was |-> [kind |-> disk.kind, text |-> disk.text]]
    /\ UNCHANGED made

\* os.WriteFile: a piece of data reaches the file
WriteFileWrite ==
    /\ disk.how = "writing"
    /\ \E n \in (Len(disk.text) + 1)..Len(SavedText(disk.of)) :
            disk' = [disk EXCEPT !.text = SubSeq(SavedText(disk.of), 1, n)]
    /\ UNCHANGED made

\* os.WriteFile: all of data is written, Close, and Save returns nil
WriteFileClose ==
    /\ disk.how = "writing"
    /\ disk.text = SavedText(disk.of)
    /\ disk' = [disk EXCEPT !.how = "saved",
                            !.was = [kind |-> "file", text |-> disk.text]]
    /\ UNCHANGED made

KilledRestores(d) == [d EXCEPT !.how = "torn", !.kind = d.was.kind, !.text = d.was.text]

\* the file a process killed inside os.WriteFile leaves behind
Killed(d) == [d EXCEPT !.how = "torn"]

\* the process is killed before all of data is written
Kill ==
    /\ disk.how = "writing"
    /\ disk.text # SavedText(disk.of)
    /\ disk' = Killed(disk)
    /\ UNCHANGED made

\* the next process constructs its store from the file
Restart ==
    /\ disk.how \in {"absent", "saved", "torn"}
    /\ NewStore

CrashOnly ==
    UNCHANGED <<storeVars, checkVars, hosts, fanVars, trackVars, notifyVars, modeVars,
                memVars, lockVars, webVars, loopVars, ownVars, authVars, histVars, jiraVars>>

CrashNext ==
    \/ CrashOnly /\ WriteFileOpen
    \/ CrashOnly /\ WriteFileWrite
    \/ CrashOnly /\ WriteFileClose
    \/ CrashOnly /\ Kill
    \/ CrashOnly /\ Restart

\* a store in memory, and on disk no file or the file of an earlier Save
CrashInit ==
    /\ Assignments \in SavedStores
    /\ file = NoFile
    /\ clock = 0
    /\ ret = NoRet
    /\ CheckIdle
    /\ hosts = <<>>
    /\ FanIdle
    /\ TrackStart
    /\ NotifyIdle
    /\ mode = ""
    /\ latest = <<>>
    /\ polls = 0
    /\ heap = <<>>
    /\ slice = NilSlice
    /\ held = <<>>
    /\ heldVal = <<>>
    /\ calls = <<>>
    /\ mu = [w |-> "", r |-> {}]
    /\ disk \in {NoDisk} \cup {OnDisk(as) : as \in SavedStores}
    /\ made = [called |-> FALSE, nil |-> TRUE, store |-> <<>>, err |-> NoErr]
    /\ WebIdle
    /\ LoopIdle
    /\ OwnIdle
    /\ AuthIdle
    /\ HistIdle
    /\ JiraIdle

SpecCrash == CrashInit /\ [][CrashNext]_vars

(***************************************************************************)
(* main.go, web.go, tui.go: the three ways the monitor polls.  --watch and *)
(* --web hand every batch to a StateTracker; the TUI keeps the batch in    *)
(* model.hosts and has no tracker.                                         *)
(***************************************************************************)
Modes == {"tui", "web", "watch"}

\* initialModel: one HostStatus{Config: h} for each host
InitialHosts(hs) == [i \in 1..Len(hs) |-> [ZeroStatus EXCEPT !.Config = hs[i]]]

\* main, --watch: results := checkAllHosts(cfg); tracker.Update(results);
\* printTable(results)
WatchCycle(u) ==
    /\ mode = "watch"
    /\ NotifyUpdate(u)
    /\ latest' = SequentialResults(hosts, u)
    /\ polls' = polls + 1
    /\ UNCHANGED mode

\* WebServer.pollLoop: ws.latest = results; ws.tracker.Update(results)
WebPoll(u) ==
    /\ mode = "web"
    /\ NotifyUpdate(u)
    /\ latest' = SequentialResults(hosts, u)
    /\ polls' = polls + 1
    /\ UNCHANGED mode

\* model.Update on checkDoneMsg: m.hosts = msg.results, and the next tick
TuiCheckDone(u) ==
    /\ mode = "tui"
    /\ polls < MaxCycles
    /\ latest' = SequentialResults(hosts, u)
    /\ polls' = polls + 1
    /\ UNCHANGED <<mode, trackVars, notifyVars>>

\* a goroutine of the tracker takes a step
Deliver ==
    /\ \E k \in 1..Len(jobs) : StartNotify(k) \/ WebhookNotify(k) \/ CommandNotify(k)
    /\ UNCHANGED modeVars

ModesOnly ==
    UNCHANGED <<storeVars, checkVars, hosts, fanVars, memVars,
                lockVars,
                loadVars, webVars, loopVars, ownVars, authVars, histVars, jiraVars>>

ModesNext ==
    \/ ModesOnly /\ \E u \in [1..Len(hosts) -> BOOLEAN] : WatchCycle(u)
    \/ ModesOnly /\ \E u \in [1..Len(hosts) -> BOOLEAN] : WebPoll(u)
    \/ ModesOnly /\ \E u \in [1..Len(hosts) -> BOOLEAN] : TuiCheckDone(u)
    \/ ModesOnly /\ Deliver

ModesInit ==
    /\ StoreStart
    /\ CheckIdle
    /\ hosts \in NotifyHostLists
    /\ FanIdle
    /\ TrackStart
    /\ config \in NotifyConfigs
    /\ jobs = <<>>
    /\ mode \in Modes
    /\ latest = IF mode = "tui" THEN InitialHosts(hosts) ELSE <<>>
    /\ polls = 0
    /\ heap = <<>>
    /\ slice = [arr |-> 0, len |-> 0, cap |-> 0]
    /\ held = <<>>
    /\ heldVal = <<>>
    /\ calls = <<>>
    /\ mu = [w |-> "", r |-> {}]
    /\ disk = [kind |-> "absent", text |-> <<>>, how |-> "absent", of |-> <<>>]
    /\ made = [called |-> FALSE, nil |-> TRUE, store |-> <<>>, err |-> NoErr]
    /\ WebIdle
    /\ LoopIdle
    /\ OwnIdle
    /\ AuthIdle
    /\ HistIdle
    /\ JiraIdle

SpecModes == ModesInit /\ [][ModesNext]_vars

\* the store of &Store{path: path} with no file: a nil slice
MemInit ==
    /\ StoreStart
    /\ CheckIdle
    /\ hosts = <<>>
    /\ FanIdle
    /\ TrackStart
    /\ NotifyIdle
    /\ ModeIdle

SpecMemory == MemInit /\ [][MemNext]_vars

FanInit == StoreStart /\ CheckIdle /\ FanStart /\ TrackStart /\ NotifyIdle /\ ModeIdle

SpecFanout == FanInit /\ [][FanNext]_vars

\* main exits before the tracker is made when cfg.Hosts is empty
TrackInit ==
    /\ StoreStart
    /\ CheckIdle
    /\ hosts \in HostLists \ {<<>>}
    /\ FanIdle
    /\ TrackStart
    /\ NotifyIdle
    /\ ModeIdle

SpecTracker == TrackInit /\ [][TrackNext]_vars

CheckInit == StoreStart /\ CheckStart /\ hosts = <<>> /\ FanIdle /\ TrackStart /\ NotifyIdle /\ ModeIdle

SpecCheck == CheckInit /\ [][CheckNext]_vars

(***************************************************************************)
(* checker.go: sshConnect alone, with the state of the local system that   *)
(* it found kept beside the list it built.                                 *)
(***************************************************************************)
\* sshConnect up to the check of len(authMethods); env keeps what was found
AuthResolve ==
    \E agent \in AgentStates, key \in KeyStates, ed \in KeyStates, rsa \in KeyStates :
        /\ Resolve(agent, key, ed, rsa)
        /\ env' = [seen |-> TRUE, agent |-> agent, key |-> key, ed |-> ed,
                   rsa |-> rsa, list |-> methods']

AuthOnly ==
    UNCHANGED <<storeVars, hosts, fanVars, trackVars, notifyVars, modeVars, memVars,
                lockVars, loadVars, webVars, loopVars, ownVars, histVars, jiraVars>>

AuthNext ==
    \/ AuthOnly /\ AuthResolve
    \/ AuthOnly /\ Dial /\ UNCHANGED env
    \/ AuthOnly /\ Handshake /\ UNCHANGED env
    \/ AuthOnly /\ Connected /\ UNCHANGED env

\* checkHost(c) has been called
AuthInit == CheckInit

SpecAuth == AuthInit /\ [][AuthNext]_vars

StoreInit == StoreStart /\ CheckIdle /\ hosts = <<>> /\ FanIdle /\ TrackStart /\ NotifyIdle /\ ModeIdle

SpecStore == StoreInit /\ [][StoreNext]_vars

(***************************************************************************)
(* web.go: pollLoop and handleAPI.  A []HostStatus is a slice over a       *)
(* backing array; ws.latest and the results of a request point to one.     *)
(* pollLoop holds ws.mu from the assignment to ws.latest to the end of     *)
(* Update; handleAPI holds it only to copy ws.latest, and reads the        *)
(* entries afterwards.  The HostHistory of the sparklines is followed in   *)
(* a specification of its own further down.                                *)
(***************************************************************************)
ResultsReused(as, n) ==
    IF as = <<>> THEN <<[i \in 1..n |-> ZeroStatus]>> ELSE as

\* results := make([]HostStatus, len(cfg.Hosts))
MakeResults(as, n) == Append(as, [i \in 1..n |-> ZeroStatus])

\* checkHost(hc) of poll cycle c
StatusOfCycle(hc_, online, c) ==
    [CheckHostResult(hc_, online) EXCEPT !.LastCheck = Now(c)]

\* the jsonResult of one entry, without the fields taken from the history
JsonResult(r) ==
    [Name |-> r.Config.Label, Host |-> r.Config.Host, Online |-> r.Online,
     CPU |-> r.CPU, Memory |-> r.Memory, Disk |-> r.Disk, Uptime |-> r.Uptime,
     Error |-> r.Error, CheckAt |-> MarshalTime(r.LastCheck)]

\* pollLoop: the start of checkAllHosts
WebCheck ==
    /\ poller.pc = "check"
    /\ poller.cycle < MaxCycles
    /\ arrays' = MakeResults(arrays, Len(hosts))
    /\ poller' = [pc |-> "recv", at |-> Len(arrays'), todo |-> 1..Len(hosts),
                  cycle |-> poller.cycle + 1]
    /\ UNCHANGED <<wsLatest, published, reader, trackVars>>

\* checkAllHosts: results[r.idx] = r.status, in the order the reports come
WebRecv ==
    /\ poller.pc = "recv"
    /\ \E i \in poller.todo, online \in BOOLEAN :
        /\ arrays' = [arrays EXCEPT ![poller.at][i] =
                            StatusOfCycle(hosts[i], online, poller.cycle)]
        /\ poller' = [poller EXCEPT !.todo = @ \ {i}]
    /\ UNCHANGED <<wsLatest, published, reader, trackVars>>

\* checkAllHosts has returned: ws.mu.Lock(), ws.latest = results,
\* ws.tracker.Update(results), ws.mu.Unlock(), and the sleep
WebPublish ==
    /\ poller.pc = "recv"
    /\ poller.todo = {}
    /\ wsLatest' = poller.at
    /\ published' = Append(published, [at |-> poller.at, cycle |-> poller.cycle,
                                       content |-> arrays[poller.at]])
    /\ LET rs  == arrays[poller.at]
           out == UpdateLoop(prev, rs, Len(rs))
       IN  /\ prev' = out.prev
           /\ transitions' = out.transitions
           /\ tasks' = tasks \o out.started
    /\ cycle' = cycle + 1
    /\ poller' = [poller EXCEPT !.pc = "check"]
    /\ UNCHANGED <<arrays, reader, upHist, outHist>>

\* handleAPI: ws.mu.RLock(), results := ws.latest, ws.mu.RUnlock(), and
\* out := make([]jsonResult, len(results))
WebSnapshot ==
    /\ reader.pc \in {"idle", "sent"}
    /\ reader' = [pc |-> "loop", at |-> wsLatest, k |-> Len(published), out |-> <<>>]
    /\ UNCHANGED <<arrays, poller, wsLatest, published, trackVars>>

\* handleAPI: one iteration of the loop over results
WebReadEntry ==
    /\ reader.pc = "loop"
    /\ reader.at # 0
    /\ Len(reader.out) < Len(arrays[reader.at])
    /\ reader' = [reader EXCEPT
                    !.out = Append(@, JsonResult(arrays[reader.at][Len(reader.out) + 1]))]
    /\ UNCHANGED <<arrays, poller, wsLatest, published, trackVars>>

\* handleAPI: the loop is over, json.NewEncoder(w).Encode(out)
WebEncode ==
    /\ reader.pc = "loop"
    /\ reader.at # 0 => Len(reader.out) = Len(arrays[reader.at])
    /\ reader' = [reader EXCEPT !.pc = "sent"]
    /\ UNCHANGED <<arrays, poller, wsLatest, published, trackVars>>

WebOnly ==
    UNCHANGED <<storeVars, checkVars, hosts, fanVars, notifyVars, modeVars, memVars,
                lockVars, loadVars, loopVars, ownVars, authVars, histVars, jiraVars>>

WebNext ==
    \/ WebOnly /\ WebCheck
    \/ WebOnly /\ WebRecv
    \/ WebOnly /\ WebPublish
    \/ WebOnly /\ WebSnapshot
    \/ WebOnly /\ WebReadEntry
    \/ WebOnly /\ WebEncode

\* NewWebServer and Run: the poll loop is about to make its first check
WebInit ==
    /\ StoreStart
    /\ CheckIdle
    /\ hosts = <<CfgA, CfgB>>
    /\ FanIdle
    /\ TrackStart
    /\ NotifyIdle
    /\ RestIdle
    /\ arrays = <<>>
    /\ poller = [pc |-> "check", at |-> 0, todo |-> {}, cycle |-> 0]
    /\ wsLatest = 0
    /\ published = <<>>
    /\ reader = [pc |-> "idle", at |-> 0, k |-> 0, out |-> <<>>]
    /\ LoopIdle
    /\ OwnIdle
    /\ AuthIdle
    /\ HistIdle
    /\ JiraIdle

SpecWeb == WebInit /\ [][WebNext]_vars

(***************************************************************************)
(* The poll loop of each run mode.  --watch and --web run checkAllHosts in *)
(* a for loop with a sleep; the TUI runs it as a command of the event      *)
(* loop: Init starts one, a tickMsg starts one, the r key on the hosts tab *)
(* starts one, and every checkDoneMsg starts a timer for the next tickMsg. *)
(***************************************************************************)
\* for { results := checkAllHosts(cfg)
LoopCheck ==
    /\ mode \in {"watch", "web"}
    /\ lpc = "check"
    /\ polls < MaxCycles
    /\ inflight' = inflight + 1
    /\ lpc' = "consume"
    /\ UNCHANGED <<tab, checking, timers, polls>>

\* tracker.Update(results), the table or ws.latest, and time.Sleep }
LoopConsume ==
    /\ mode \in {"watch", "web"}
    /\ lpc = "consume"
    /\ inflight' = inflight - 1
    /\ polls' = polls + 1
    /\ lpc' = "check"
    /\ UNCHANGED <<tab, checking, timers>>

\* model.Update on the keys "tab", "1" and "2"
TuiKeyTab ==
    /\ mode = "tui"
    /\ \E t \in {"hosts", "jira"} : t # tab /\ tab' = t
    /\ UNCHANGED <<checking, inflight, timers, lpc, polls>>

\* model.Update on the key "r": on the Jira tab the key goes to m.jira
TuiKeyR ==
    /\ mode = "tui"
    /\ tab = "hosts"
    /\ inflight + timers < MaxChains
    /\ checking' = TRUE
    /\ inflight' = inflight + 1
    /\ UNCHANGED <<tab, timers, lpc, polls>>

\* model.Update on checkDoneMsg, with m.once false
TuiDone ==
    /\ mode = "tui"
    /\ inflight > 0
    /\ polls < MaxCycles
    /\ inflight' = inflight - 1
    /\ checking' = FALSE
    /\ timers' = timers + 1
    /\ polls' = polls + 1
    /\ UNCHANGED <<tab, lpc>>

\* model.Update on tickMsg
TuiTick ==
    /\ mode = "tui"
    /\ timers > 0
    /\ timers' = timers - 1
    /\ checking' = TRUE
    /\ inflight' = inflight + 1
    /\ UNCHANGED <<tab, lpc, polls>>

LoopOnly ==
    /\ UNCHANGED <<storeVars, checkVars, hosts, fanVars, trackVars, notifyVars, memVars,
                   lockVars, loadVars, webVars, ownVars, authVars, histVars, jiraVars>>
    /\ UNCHANGED <<mode, latest>>

LoopNext ==
    \/ LoopOnly /\ LoopCheck
    \/ LoopOnly /\ LoopConsume
    \/ LoopOnly /\ TuiKeyTab
    \/ LoopOnly /\ TuiKeyR
    \/ LoopOnly /\ TuiDone
    \/ LoopOnly /\ TuiTick

\* main has chosen the mode; the TUI has run model.Init, which starts the
\* first check
LoopInit ==
    /\ StoreStart
    /\ CheckIdle
    /\ hosts = <<CfgA, CfgB>>
    /\ FanIdle
    /\ TrackStart
    /\ NotifyIdle
    /\ mode \in Modes
    /\ latest = <<>>
    /\ polls = 0
    /\ heap = <<>>
    /\ slice = NilSlice
    /\ held = <<>>
    /\ heldVal = <<>>
    /\ calls = <<>>
    /\ mu = [w |-> "", r |-> {}]
    /\ disk = [kind |-> "absent", text |-> <<>>, how |-> "absent", of |-> <<>>]
    /\ made = [called |-> FALSE, nil |-> TRUE, store |-> <<>>, err |-> NoErr]
    /\ WebIdle
    /\ tab = "hosts"
    /\ checking = FALSE
    /\ inflight = (IF mode = "tui" THEN 1 ELSE 0)
    /\ timers = 0
    /\ lpc = (IF mode = "tui" THEN "idle" ELSE "check")
    /\ OwnIdle
    /\ AuthIdle
    /\ HistIdle
    /\ JiraIdle

SpecLoop == LoopInit /\ [][LoopNext]_vars

(***************************************************************************)
(* The goroutines of --watch and --web and the fields of the tracker they  *)
(* use.  The loop (main, or pollLoop) calls Update; the requests of the    *)
(* web server are served on goroutines of their own; every transition      *)
(* starts a goroutine that runs notify.                                    *)
(***************************************************************************)
LoopThread(m) == IF m = "watch" THEN "main" ELSE "pollLoop"

Access(by, field, kind) == [by |-> by, field |-> field, kind |-> kind]

\* Update: wasOnline, seen := st.prev[key] and st.prev[key] = r.Online
UpdateAccesses(by) == {Access(by, "prev", "read"), Access(by, "prev", "write")}

NotifyUsesPrev(by) ==
    {Access(by, "config", "read"), Access(by, "prev", "read")}

\* notify, webhookNotify and commandNotify: st.config.Webhook and
\* st.config.Command; the rest are their arguments
NotifyAccesses(by) == {Access(by, "config", "read")}

\* handleAPI and handleDashboard: ws.latest and ws.history, no field of the
\* tracker
HandlerAccesses(by) == {Access(by, "latest", "read")}

\* the loop calls tracker.Update(results)
OwnEnter ==
    /\ LoopThread(mode) \notin updating
    /\ cycle < MaxCycles
    /\ updating' = updating \cup {LoopThread(mode)}
    /\ UNCHANGED <<accesses, trackVars, notifyVars>>

\* the loop of Update and its return
OwnUpdate(u) ==
    /\ LoopThread(mode) \in updating
    /\ NotifyUpdate(u)
    /\ accesses' = accesses \cup UpdateAccesses(LoopThread(mode))
    /\ updating' = updating \ {LoopThread(mode)}

\* a request is served while the loop runs
OwnHandle ==
    /\ mode = "web"
    /\ accesses' = accesses \cup HandlerAccesses("handler")
    /\ UNCHANGED <<updating, trackVars, notifyVars>>

OwnStart(k) ==
    /\ StartNotify(k)
    /\ accesses' = accesses \cup NotifyAccesses("notify")
    /\ UNCHANGED updating

OwnWebhook(k) ==
    /\ WebhookNotify(k)
    /\ accesses' = accesses \cup NotifyAccesses("notify")
    /\ UNCHANGED updating

OwnCommand(k) ==
    /\ CommandNotify(k)
    /\ accesses' = accesses \cup NotifyAccesses("notify")
    /\ UNCHANGED updating

OwnOnly ==
    UNCHANGED <<storeVars, checkVars, hosts, fanVars, modeVars, memVars, lockVars,
                loadVars, webVars, loopVars, authVars, histVars, jiraVars>>

OwnNext ==
    \/ OwnOnly /\ OwnEnter
    \/ OwnOnly /\ \E u \in [1..Len(hosts) -> BOOLEAN] : OwnUpdate(u)
    \/ OwnOnly /\ OwnHandle
    \/ OwnOnly /\ \E k \in 1..Len(jobs) : OwnStart(k)
    \/ OwnOnly /\ \E k \in 1..Len(jobs) : OwnWebhook(k)
    \/ OwnOnly /\ \E k \in 1..Len(jobs) : OwnCommand(k)

\* NewStateTracker(cfg.Notify) in main or in NewWebServer
OwnInit ==
    /\ StoreStart
    /\ CheckIdle
    /\ hosts \in NotifyHostLists
    /\ FanIdle
    /\ TrackStart
    /\ config \in NotifyConfigs
    /\ jobs = <<>>
    /\ mode \in {"watch", "web"}
    /\ latest = <<>>
    /\ polls = 0
    /\ heap = <<>>
    /\ slice = NilSlice
    /\ held = <<>>
    /\ heldVal = <<>>
    /\ calls = <<>>
    /\ mu = [w |-> "", r |-> {}]
    /\ disk = [kind |-> "absent", text |-> <<>>, how |-> "absent", of |-> <<>>]
    /\ made = [called |-> FALSE, nil |-> TRUE, store |-> <<>>, err |-> NoErr]
    /\ WebIdle
    /\ LoopIdle
    /\ accesses = {}
    /\ updating = {}
    /\ AuthIdle
    /\ HistIdle
    /\ JiraIdle

SpecOwner == OwnInit /\ [][OwnNext]_vars

(***************************************************************************)
(* The store as its callers can use it.  Status is a string type, so       *)
(* UpdateStatus takes any string; NewStore takes whatever the file holds,  *)
(* written by Save or not.                                                 *)
(***************************************************************************)
\* a status of the four and a string that is none of them
StatusValues == {StatusInProgress, "blocked"}

\* a dispatch.json that was not written by Save
ForeignFile ==
    FileOf(MarshalStore(<<[NewAssignment("PROJ-1", "Fix bug", "hostA", 0) EXCEPT
                                !.Status = "review"]>>))

ApiNext ==
    \/ StoreOnly /\ \E t \in Targets : Assign("PROJ-1", "Fix bug", t)
    \/ StoreOnly /\ \E t \in Targets, st \in StatusValues :
                        UpdateStatus(ID("PROJ-1", t), st, "")
    \/ StoreOnly /\ \E t \in Targets : Remove(ID("PROJ-1", t))
    \/ StoreOnly /\ Save
    \/ StoreOnly /\ Load

ApiInit ==
    /\ Assignments = <<>>
    /\ file \in {NoFile, ForeignFile}
    /\ clock = 0
    /\ ret = NoRet
    /\ CheckIdle
    /\ hosts = <<>>
    /\ FanIdle
    /\ TrackStart
    /\ NotifyIdle
    /\ ModeIdle

SpecApi == ApiInit /\ [][ApiNext]_vars

(***************************************************************************)
(* dispatch.go: the store called with issue keys and targets that hold the *)
(* separator of the id.                                                    *)
(***************************************************************************)
\* pairs of issue key and target; the first two give the same Sprintf text
ArrowPairs == {<<"A", "B→C">>, <<"A→B", "C">>, <<"A", "C">>}

IdsNext ==
    \/ StoreOnly /\ \E p \in ArrowPairs : Assign(p[1], "Fix bug", p[2])
    \/ StoreOnly /\ \E p \in ArrowPairs : UpdateStatus(ID(p[1], p[2]), StatusDone, "")
    \/ StoreOnly /\ \E p \in ArrowPairs : Remove(ID(p[1], p[2]))

\* &Store{path: path} with no file at the path
IdsInit ==
    /\ StoreStart
    /\ CheckIdle
    /\ hosts = <<>>
    /\ FanIdle
    /\ TrackStart
    /\ NotifyIdle
    /\ ModeIdle

SpecIds == IdsInit /\ [][IdsNext]_vars

(***************************************************************************)
(* jira_view.go and tui.go: the TUI with its Jira view.  Update handles    *)
(* one message at a time; a command it returns runs in a goroutine and its *)
(* message comes back at any later time, in any order.  Indices start at 0 *)
(* as in the code; a list is read at index + 1.  Jira is configured.       *)
(***************************************************************************)
\* the commands of one session that are followed, loadProjects of Init
\* included
MaxRequests == 3

\* what the Jira server has
ProjectKeys == <<"PA", "PB">>

Issue(p, n) == [Key |-> p \o "-" \o n, Summary |-> "Fix bug", Project |-> p]

\* what ListProjects returns when it returns no error
ProjectLists == {ProjectKeys, <<ProjectKeys[1]>>}

\* what SearchIssues returns for a project when it returns no error
IssueLists(p) == {<<Issue(p, "1"), Issue(p, "2")>>, <<Issue(p, "1")>>}

ErrJira == "jira: request failed"

\* os.WriteFile("", ...): open : no such file or directory
ErrNoPath == "open : no such file or directory"

\* listLen
ListLen(m) ==
    CASE m.level = "projects" -> Len(m.projects)
      [] m.level = "issues" -> Len(m.issues)
      [] OTHER -> 0

\* a list of length n can be read at the index i
InRange(i, n) == 0 <= i /\ i < n

\* a load command was started: its message is yet to come
Started(kind, proj) ==
    /\ nreq' = nreq + 1
    /\ inbox' = inbox \cup {[id |-> nreq + 1, kind |-> kind, proj |-> proj, err |-> ""]}
    /\ search' = IF kind = "issues" THEN [id |-> nreq + 1, proj |-> proj] ELSE search

\* a step of Update that starts no command, reads no list and saves nothing
Handled(m) ==
    /\ jm' = m
    /\ UNCHANGED <<hcursor, inbox, nreq, search, shown, spath, panicked, storeVars, disk,
                   made>>

\* a key on the Jira tab that is not for the dispatch prompt
NavKey ==
    /\ tab = "jira"
    /\ ~panicked
    /\ ~jm.dispatching

\* updateNav: "up", "k"
NavUp ==
    /\ NavKey
    /\ Handled(IF jm.cursor > 0 THEN [jm EXCEPT !.cursor = @ - 1] ELSE jm)

\* updateNav: "down", "j"
NavDown ==
    /\ NavKey
    /\ LET max == IF ListLen(jm) - 1 < 0 THEN 0 ELSE ListLen(jm) - 1
       IN  Handled(IF jm.cursor < max THEN [jm EXCEPT !.cursor = @ + 1] ELSE jm)

\* an index out of range: the program panics
Panic ==
    /\ panicked' = TRUE
    /\ UNCHANGED <<jm, hcursor, inbox, nreq, search, shown, spath, storeVars,
                   disk, made>>

\* enter on the projects level: m.projects[m.cursor] and loadIssues
EnterProject ==
    /\ NavKey
    /\ jm.level = "projects"
    /\ Len(jm.projects) > 0
    /\ IF InRange(jm.cursor, Len(jm.projects))
       THEN LET proj == jm.projects[jm.cursor + 1]
                m    == [jm EXCEPT !.selProj = proj, !.level = "issues",
                                   !.loading = TRUE, !.cursor = 0]
            IN  /\ nreq < MaxRequests
                /\ jm' = m
                /\ Started("issues", proj)
                /\ UNCHANGED <<hcursor, shown, spath, panicked, storeVars, disk, made>>
       ELSE Panic

\* enter on the issues level: issue := m.issues[m.cursor]
EnterIssue ==
    /\ NavKey
    /\ jm.level = "issues"
    /\ Len(jm.issues) > 0
    /\ IF InRange(jm.cursor, Len(jm.issues))
       THEN Handled([jm EXCEPT !.selIssue = <<jm.issues[jm.cursor + 1]>>,
                               !.level = "detail", !.cursor = 0])
       ELSE Panic

\* back
BackOf(m) ==
    CASE m.level = "detail" -> [m EXCEPT !.level = "issues", !.selIssue = <<>>,
                                         !.cursor = 0]
      [] m.level = "issues" -> [m EXCEPT !.level = "projects", !.issues = <<>>,
                                          !.selProj = "", !.cursor = 0]
      [] OTHER -> m

\* updateNav: "esc", "h", "backspace"
NavBack ==
    /\ NavKey
    /\ Handled(BackOf(jm))

\* updateNav: "d" on the issues level reads m.issues[m.cursor]
NavDispatch ==
    /\ NavKey
    /\ IF jm.level = "issues" /\ Len(jm.issues) > 0 /\ Len(hosts) > 0
       THEN IF InRange(jm.cursor, Len(jm.issues))
            THEN Handled([jm EXCEPT !.selIssue = <<jm.issues[jm.cursor + 1]>>,
                                    !.dispatching = TRUE, !.dispatchCursor = 0])
            ELSE Panic
       ELSE IF jm.level = "detail" /\ jm.selIssue # <<>> /\ Len(hosts) > 0
            THEN Handled([jm EXCEPT !.dispatching = TRUE, !.dispatchCursor = 0])
            ELSE Handled(jm)

\* updateNav: "r", refresh; on the detail level no command is started
NavRefresh ==
    /\ NavKey
    /\ LET m == [jm EXCEPT !.loading = TRUE, !.err = ""]
       IN  IF jm.level = "detail"
           THEN Handled(m)
           ELSE /\ nreq < MaxRequests
                /\ jm' = m
                /\ Started(jm.level, IF jm.level = "issues" THEN jm.selProj ELSE "")
                /\ UNCHANGED <<hcursor, shown, spath, panicked, storeVars, disk, made>>

\* a key on the Jira tab while the dispatch prompt is open
DispatchKey ==
    /\ tab = "jira"
    /\ ~panicked
    /\ jm.dispatching

\* updateDispatch: "up", "k"
DispatchUp ==
    /\ DispatchKey
    /\ Handled(IF jm.dispatchCursor > 0 THEN [jm EXCEPT !.dispatchCursor = @ - 1] ELSE jm)

\* updateDispatch: "down", "j"
DispatchDown ==
    /\ DispatchKey
    /\ Handled(IF jm.dispatchCursor < Len(hosts) - 1
               THEN [jm EXCEPT !.dispatchCursor = @ + 1] ELSE jm)

\* updateDispatch: "esc"
DispatchEsc ==
    /\ DispatchKey
    /\ Handled([jm EXCEPT !.dispatching = FALSE])

\* Store.Save of the store with this path and these records, the file being
\* d: MkdirAll(filepath.Dir(path)) and os.WriteFile(path, data, 0644)
SaveTo(path, as, d) ==
    IF path = ""
    THEN [err |-> ErrNoPath, disk |-> d]
    ELSE [err |-> NoErr,
          disk |-> [kind |-> "file", text |-> SavedText(as), how |-> "saved", of |-> as]]

\* updateDispatch: "enter": m.hosts[m.dispatchCursor], Assign, Save, and the
\* command that brings the error of Save back as a message
DispatchEnter ==
    /\ DispatchKey
    /\ IF jm.selIssue # <<>> /\ jm.dispatchCursor < Len(hosts)
       THEN IF InRange(jm.dispatchCursor, Len(hosts))
            THEN LET target == hosts[jm.dispatchCursor + 1].Label
                     issue  == jm.selIssue[1]
                     m      == [jm EXCEPT !.dispatching = FALSE]
                 IN  /\ nreq < MaxRequests
                     /\ nreq' = nreq + 1
                     /\ Assign(issue.Key, issue.Summary, target)
                     /\ LET saved == SaveTo(spath, Assignments', disk)
                        IN  /\ disk' = saved.disk
                            /\ inbox' = inbox \cup {[id |-> nreq + 1, kind |-> "dispatched",
                                                     proj |-> "", err |-> saved.err]}
                     /\ jm' = m
                     /\ UNCHANGED <<hcursor, search, shown, spath, panicked, made>>
            ELSE Panic
       ELSE Handled(jm)

\* Update on jiraProjectsMsg
AfterProjects(m, list, err) ==
    IF err # "" THEN [m EXCEPT !.loading = FALSE, !.err = err, !.cursor = 0]
    ELSE [m EXCEPT !.loading = FALSE, !.projects = list, !.err = "", !.cursor = 0]

IssuesKeepCursor(m, list, err) ==
    IF err # "" THEN [m EXCEPT !.loading = FALSE, !.err = err]
    ELSE [m EXCEPT !.loading = FALSE, !.issues = list, !.err = ""]

\* Update on jiraIssuesMsg
AfterIssues(m, list, err) ==
    IF err # "" THEN [m EXCEPT !.loading = FALSE, !.err = err, !.cursor = 0]
    ELSE [m EXCEPT !.loading = FALSE, !.issues = list, !.err = "", !.cursor = 0]

\* Update on jiraDispatchedMsg
AfterDispatched(m, err) ==
    IF err # NoErr THEN [m EXCEPT !.dispatching = FALSE, !.err = err]
    ELSE [m EXCEPT !.dispatching = FALSE]

\* ListProjects has returned and its message is handed to Update
RecvProjects ==
    /\ ~panicked
    /\ \E msg \in inbox :
        /\ msg.kind = "projects"
        /\ inbox' = inbox \ {msg}
        /\ \E r \in {[list |-> l, err |-> ""] : l \in ProjectLists}
                    \cup {[list |-> <<>>, err |-> ErrJira]} :
            LET m == AfterProjects(jm, r.list, r.err)
            IN  /\ jm' = m
    /\ UNCHANGED <<hcursor, nreq, search, shown, spath, panicked, storeVars, disk, made>>

\* SearchIssues has returned and its message is handed to Update
RecvIssues ==
    /\ ~panicked
    /\ \E msg \in inbox :
        /\ msg.kind = "issues"
        /\ inbox' = inbox \ {msg}
        /\ \E r \in {[list |-> l, err |-> ""] : l \in IssueLists(msg.proj)}
                    \cup {[list |-> <<>>, err |-> ErrJira]} :
            LET m == AfterIssues(jm, r.list, r.err)
            IN  /\ jm' = m
                /\ shown' = IF r.err = "" THEN msg.id ELSE shown
    /\ UNCHANGED <<hcursor, nreq, search, spath, panicked, storeVars, disk, made>>

\* the message with the error of Save is handed to Update
RecvDispatched ==
    /\ ~panicked
    /\ \E msg \in inbox :
        /\ msg.kind = "dispatched"
        /\ inbox' = inbox \ {msg}
        /\ jm' = AfterDispatched(jm, msg.err)
    /\ UNCHANGED <<hcursor, nreq, search, shown, spath, panicked, storeVars, disk, made>>

\* model.Update: "down", "j" on the hosts tab
HostCursorDown(c, n) == IF c < n - 1 THEN c + 1 ELSE c

\* model.Update: "up", "k" on the hosts tab
HostCursorUp(c) == IF c > 0 THEN c - 1 ELSE c

HostKey ==
    /\ tab = "hosts"
    /\ ~panicked
    /\ \E c \in {HostCursorUp(hcursor), HostCursorDown(hcursor, Len(hosts))} :
        /\ c # hcursor
        /\ hcursor' = c
    /\ UNCHANGED <<jm, inbox, nreq, search, shown, spath, panicked, storeVars,
                   disk, made>>

\* model.Update: "tab", "1", "2"
JiraKeyTab ==
    /\ ~panicked
    /\ TuiKeyTab
    /\ UNCHANGED <<mode, latest, jiraVars, storeVars, disk, made>>

JiraOnly ==
    UNCHANGED <<checkVars, hosts, fanVars, trackVars, notifyVars, memVars, lockVars,
                webVars, ownVars, authVars, histVars>>

JiraNext ==
    \/ JiraOnly /\ JiraKeyTab
    \/ JiraOnly /\ HostKey /\ UNCHANGED <<modeVars, loopVars>>
    \/ JiraOnly /\ NavUp /\ UNCHANGED <<modeVars, loopVars>>
    \/ JiraOnly /\ NavDown /\ UNCHANGED <<modeVars, loopVars>>
    \/ JiraOnly /\ EnterProject /\ UNCHANGED <<modeVars, loopVars>>
    \/ JiraOnly /\ EnterIssue /\ UNCHANGED <<modeVars, loopVars>>
    \/ JiraOnly /\ NavBack /\ UNCHANGED <<modeVars, loopVars>>
    \/ JiraOnly /\ NavDispatch /\ UNCHANGED <<modeVars, loopVars>>
    \/ JiraOnly /\ NavRefresh /\ UNCHANGED <<modeVars, loopVars>>
    \/ JiraOnly /\ DispatchUp /\ UNCHANGED <<modeVars, loopVars>>
    \/ JiraOnly /\ DispatchDown /\ UNCHANGED <<modeVars, loopVars>>
    \/ JiraOnly /\ DispatchEsc /\ UNCHANGED <<modeVars, loopVars>>
    \/ JiraOnly /\ DispatchEnter /\ UNCHANGED <<modeVars, loopVars>>
    \/ JiraOnly /\ RecvProjects /\ UNCHANGED <<modeVars, loopVars>>
    \/ JiraOnly /\ RecvIssues /\ UNCHANGED <<modeVars, loopVars>>
    \/ JiraOnly /\ RecvDispatched /\ UNCHANGED <<modeVars, loopVars>>

\* the files at the dispatch path when the TUI starts: none, and one that
\* Save wrote and that was cut short
JiraDisks ==
    LET as == <<NewAssignment("PA-1", "Fix bug", "MacBook", 0)>>
    IN  {[kind |-> "absent", text |-> <<>>, how |-> "absent", of |-> <<>>],
         [kind |-> "file", text |-> SubSeq(SavedText(as), 1, Len(SavedText(as)) - 1),
          how |-> "truncated", of |-> as]}

\* main in TUI mode: NewStore, and &dispatch.Store{} when it failed;
\* newJiraModel, initialModel, and model.Init, which starts loadProjects
\* (the m.loading = true of jiraModel.Init is made on a copy)
JiraInit ==
    /\ disk \in JiraDisks
    /\ made = NewStoreOf(disk)
    /\ Assignments = made.store
    /\ file = NoFile
    /\ clock = 0
    /\ ret = NoRet
    /\ spath = (IF made.err # NoErr THEN "" ELSE "dispatch.json")
    /\ CheckIdle
    /\ hosts = <<CfgA, CfgB>>
    /\ FanIdle
    /\ TrackStart
    /\ NotifyIdle
    /\ mode = "tui"
    /\ latest = <<>>
    /\ polls = 0
    /\ heap = <<>>
    /\ slice = NilSlice
    /\ held = <<>>
    /\ heldVal = <<>>
    /\ calls = <<>>
    /\ mu = [w |-> "", r |-> {}]
    /\ WebIdle
    /\ LoopIdle
    /\ OwnIdle
    /\ AuthIdle
    /\ HistIdle
    /\ jm = NoJiraModel
    /\ hcursor = 0
    /\ inbox = {[id |-> 1, kind |-> "projects", proj |-> "", err |-> ""]}
    /\ nreq = 1
    /\ search = [id |-> 0, proj |-> ""]
    /\ shown = 0
    /\ panicked = FALSE

SpecJira == JiraInit /\ [][JiraNext]_vars



(***************************************************************************)
(* web.go: the history of the sparklines.  pollLoop adds one flag per      *)
(* result to the HostHistory of the host's name while it holds ws.mu;      *)
(* handleAPI holds ws.mu only to copy ws.latest and reads the histories    *)
(* afterwards.  Add is three statements, and a read that runs beside them  *)
(* has no synchronisation with them.                                       *)
(***************************************************************************)
\* NewHostHistory(60): the limit of a history, scaled down
HistoryMax == 2

\* &HostHistory{Max: max}
NewHostHistory == [Checks |-> <<>>, Times |-> <<>>]

\* h.Checks = append(h.Checks, online)
AddChecks(h, online) == [h EXCEPT !.Checks = Append(@, online)]

\* h.Times = append(h.Times, time.Now())
AddTimes(h, now) == [h EXCEPT !.Times = Append(@, now)]

DropNewest(h) ==
    IF Len(h.Checks) > HistoryMax
    THEN [Checks |-> SubSeq(h.Checks, 1, HistoryMax),
          Times |-> SubSeq(h.Times, 1, HistoryMax)]
    ELSE h

\* if len(h.Checks) > h.Max { h.Checks = h.Checks[1:]; h.Times = h.Times[1:] }
DropOldest(h) ==
    IF Len(h.Checks) > HistoryMax
    THEN [Checks |-> Tail(h.Checks), Times |-> Tail(h.Times)]
    ELSE h

\* UptimePercent: float64(up) / float64(len(h.Checks)) * 100, kept as the
\* two integers of the quotient; 0 for an empty history
UptimePercent(checks) ==
    IF Len(checks) = 0 THEN [up |-> 0, of |-> 1]
    ELSE [up |-> Cardinality({k \in 1..Len(checks) : checks[k]}), of |-> Len(checks)]

\* Sparkline: one block character per check
Sparkline(checks) == [k \in 1..Len(checks) |-> IF checks[k] THEN "full" ELSE "light"]

\* pollLoop is inside h.Add of the history of the name n
AdderIn(n) ==
    /\ adder.pc \in {"times", "trim"}
    /\ hlatest[adder.i].Config.Name = n

\* what a read of h.Checks can get: the slice as it is, or, beside an Add
\* that has not ended, the slice this Add started from
Observed(n) ==
    {history[n].Checks} \cup (IF AdderIn(n) THEN {adder.old} ELSE {})

\* the online flags of one poll cycle that are followed: the first host
\* answers or not, any further host answers every check
HistoryFlags == {u \in [1..Len(hosts) -> BOOLEAN] : \A i \in 2..Len(hosts) : u[i]}

\* pollLoop: checkAllHosts has returned; ws.mu.Lock(), ws.latest = results,
\* ws.tracker.Update(results)
HistLock ==
    /\ adder.pc = "sleep"
    /\ adder.cycle < MaxCycles
    /\ ~hmu
    /\ \E u \in HistoryFlags :
        LET rs  == SequentialResults(hosts, u)
            out == UpdateLoop(prev, rs, Len(rs))
        IN  /\ hlatest' = rs
            /\ prev' = out.prev
            /\ transitions' = out.transitions
            /\ tasks' = tasks \o out.started
    /\ cycle' = cycle + 1
    /\ hmu' = TRUE
    /\ adder' = [pc |-> "loop", i |-> 1, cycle |-> adder.cycle + 1, old |-> <<>>]
    /\ UNCHANGED <<history, viewer, added, upHist, outHist>>

\* h.Add(r.Online), the first statement
HistAddChecks ==
    /\ adder.pc = "loop"
    /\ adder.i <= Len(hlatest)
    /\ LET r == hlatest[adder.i]
           n == r.Config.Name
       IN  /\ history' = [history EXCEPT ![n] = AddChecks(@, r.Online)]
           /\ added' = [added EXCEPT ![n] = Append(@, r.Online)]
           /\ adder' = [adder EXCEPT !.pc = "times", !.old = history[n].Checks]
    /\ UNCHANGED <<hlatest, hmu, viewer, trackVars>>

\* h.Add(r.Online), the second statement
HistAddTimes ==
    /\ adder.pc = "times"
    /\ LET n == hlatest[adder.i].Config.Name
       IN  history' = [history EXCEPT ![n] = AddTimes(@, Now(adder.cycle))]
    /\ adder' = [adder EXCEPT !.pc = "trim"]
    /\ UNCHANGED <<hlatest, hmu, viewer, added, trackVars>>

\* h.Add(r.Online), the if statement, and the next iteration
HistAddTrim ==
    /\ adder.pc = "trim"
    /\ LET n == hlatest[adder.i].Config.Name
       IN  history' = [history EXCEPT ![n] = DropOldest(@)]
    /\ adder' = [adder EXCEPT !.pc = "loop", !.i = @ + 1, !.old = <<>>]
    /\ UNCHANGED <<hlatest, hmu, viewer, added, trackVars>>

\* the loop over results is over: ws.mu.Unlock(), and the sleep
HistUnlock ==
    /\ adder.pc = "loop"
    /\ adder.i > Len(hlatest)
    /\ hmu' = FALSE
    /\ adder' = [adder EXCEPT !.pc = "sleep", !.i = 0]
    /\ UNCHANGED <<history, hlatest, viewer, added, trackVars>>

\* handleAPI: ws.mu.RLock(), results := ws.latest, ws.mu.RUnlock()
ApiSnapshot ==
    /\ viewer.pc \in {"idle", "sent"}
    /\ ~hmu
    /\ viewer' = [pc |-> "entry", results |-> hlatest, i |-> 1, spark |-> <<>>,
                  pct |-> <<>>, out |-> <<>>]
    /\ UNCHANGED <<history, hlatest, hmu, adder, added, trackVars>>

\* the jsonResult fields that come from the history, as make left them
NoHistory(n) == [Name |-> n, Sparkline |-> <<>>, UptimePercent |-> <<>>, CheckCount |-> 0]

\* handleAPI: h, ok := ws.history[r.Config.Name]; ok && len(h.Checks) > 0
ApiGuard ==
    /\ viewer.pc = "entry"
    /\ viewer.i <= Len(viewer.results)
    /\ LET n == viewer.results[viewer.i].Config.Name
       IN  \E c \in Observed(n) :
            IF Len(c) > 0
            THEN viewer' = [viewer EXCEPT !.pc = "sparkline"]
            ELSE viewer' = [viewer EXCEPT !.out = Append(@, NoHistory(n)), !.i = @ + 1]
    /\ UNCHANGED <<history, hlatest, hmu, adder, added, trackVars>>

\* jr.Sparkline = h.Sparkline()
ApiSparkline ==
    /\ viewer.pc = "sparkline"
    /\ \E c \in Observed(viewer.results[viewer.i].Config.Name) :
        viewer' = [viewer EXCEPT !.pc = "percent", !.spark = Sparkline(c)]
    /\ UNCHANGED <<history, hlatest, hmu, adder, added, trackVars>>

\* jr.UptimePercent = h.UptimePercent()
ApiPercent ==
    /\ viewer.pc = "percent"
    /\ \E c \in Observed(viewer.results[viewer.i].Config.Name) :
        viewer' = [viewer EXCEPT !.pc = "count", !.pct = <<UptimePercent(c)>>]
    /\ UNCHANGED <<history, hlatest, hmu, adder, added, trackVars>>

\* jr.CheckCount = len(h.Checks), and out[i] = jr
ApiCount ==
    /\ viewer.pc = "count"
    /\ LET n == viewer.results[viewer.i].Config.Name
       IN  \E c \in Observed(n) :
            viewer' = [viewer EXCEPT
                          !.pc = "entry", !.i = @ + 1, !.spark = <<>>, !.pct = <<>>,
                          !.out = Append(@, [Name |-> n, Sparkline |-> viewer.spark,
                                             UptimePercent |-> viewer.pct,
                                             CheckCount |-> Len(c)])]
    /\ UNCHANGED <<history, hlatest, hmu, adder, added, trackVars>>

\* the loop is over: json.NewEncoder(w).Encode(out)
ApiEncode ==
    /\ viewer.pc = "entry"
    /\ viewer.i > Len(viewer.results)
    /\ viewer' = [viewer EXCEPT !.pc = "sent"]
    /\ UNCHANGED <<history, hlatest, hmu, adder, added, trackVars>>

HistOnly ==
    UNCHANGED <<storeVars, checkVars, hosts, fanVars, notifyVars, modeVars, memVars,
                lockVars, loadVars, webVars, loopVars, ownVars, authVars, jiraVars>>

HistNext ==
    \/ HistOnly /\ HistLock
    \/ HistOnly /\ HistAddChecks
    \/ HistOnly /\ HistAddTimes
    \/ HistOnly /\ HistAddTrim
    \/ HistOnly /\ HistUnlock
    \/ HistOnly /\ ApiSnapshot
    \/ HistOnly /\ ApiGuard
    \/ HistOnly /\ ApiSparkline
    \/ HistOnly /\ ApiPercent
    \/ HistOnly /\ ApiCount
    \/ HistOnly /\ ApiEncode

\* NewWebServer and Run: one empty history per host name, ws.latest nil
HistInit ==
    /\ StoreStart
    /\ CheckIdle
    /\ hosts \in {<<CfgA>>, <<CfgA, CfgB>>}
    /\ FanIdle
    /\ TrackStart
    /\ NotifyIdle
    /\ RestIdle
    /\ WebIdle
    /\ LoopIdle
    /\ OwnIdle
    /\ AuthIdle
    /\ history = [n \in {hosts[i].Name : i \in 1..Len(hosts)} |-> NewHostHistory]
    /\ hlatest = <<>>
    /\ hmu = FALSE
    /\ adder = [pc |-> "sleep", i |-> 0, cycle |-> 0, old |-> <<>>]
    /\ viewer = [pc |-> "idle", results |-> <<>>, i |-> 0, spark |-> <<>>,
                 pct |-> <<>>, out |-> <<>>]
    /\ added = [n \in {hosts[i].Name : i \in 1..Len(hosts)} |-> <<>>]
    /\ JiraIdle

SpecHistory == HistInit /\ [][HistNext]_vars


(***************************************************************************)
(* Properties of checkAllHosts.                                            *)
(***************************************************************************)
\* C1: for every host list, of any size from none up, every order in which
\* the workers complete and every mix of online and failed hosts,
\* checkAllHosts returns as many results as there are hosts and result i is
\* what checkHost gives for host i: the list of the sequential loop.
C1_FanoutIsSequential ==
    fpc = "done" =>
        /\ Len(results) = Len(hosts)
        /\ \A i \in 1..Len(hosts) : results[i] = CheckHostResult(hosts[i], up[i])
        /\ results = SequentialResults(hosts, up)

\* two hosts, one online and one failed, whose reports arrived in the
\* reverse of the input order
C1_Witness ==
    /\ fpc = "done"
    /\ Len(hosts) = 2
    /\ up[1] # up[2]
    /\ arrival = <<2, 1>>
    /\ results[1].Online = up[1]

(***************************************************************************)
(* Properties of StateTracker.Update.  Result n of cycle c is an earlier   *)
(* observation of a host when it comes before in the same batch or in an   *)
(* earlier batch; the batches of a session are over the same cfg.Hosts, so *)
(* every host has been observed once the first cycle is over.              *)
(***************************************************************************)
SameHost(m, n) == hosts[m].Host = hosts[n].Host

EarlierInBatch(n) == {m \in 1..(n - 1) : SameHost(m, n)}

LastInBatch(n) == {m \in 1..Len(hosts) : SameHost(m, n)}

Max(S) == CHOOSE x \in S : \A y \in S : y <= x

FirstObservation(c, n) == c = 1 /\ EarlierInBatch(n) = {}

\* the online flag of the latest observation of the host before result n of
\* cycle c
PriorFlag(c, n) ==
    IF EarlierInBatch(n) # {} THEN upHist[c][Max(EarlierInBatch(n))]
    ELSE upHist[c - 1][Max(LastInBatch(n))]

DownText(c) == c.Label \o " (" \o c.Host \o ") went DOWN"

UpText(c) == c.Label \o " (" \o c.Host \o ") came UP"

\* C2: a result whose host the tracker has never observed produces no
\* transition message and starts no notification, whether it is online or
\* not; its flag is recorded.
C2_FirstObservationSilent ==
    \A c \in 1..cycle : \A n \in 1..Len(hosts) :
        FirstObservation(c, n) =>
            /\ outHist[c][n].msgs = <<>>
            /\ outHist[c][n].started = <<>>
            /\ outHist[c][n].recorded = upHist[c][n]

\* the first batch had an online host and an offline host, both new, and
\* Update returned nothing
C2_Witness ==
    /\ cycle = 1
    /\ Len(hosts) = 2
    /\ ~SameHost(1, 2)
    /\ upHist[1] = <<TRUE, FALSE>>
    /\ DOMAIN prev = {hosts[1].Host, hosts[2].Host}
    /\ transitions = <<>>
    /\ tasks = <<>>

\* C4: for a previously observed host, Update emits "went DOWN" and a
\* notification with token "down" exactly when the host was up and is down,
\* "came UP" and a notification with token "up" exactly when it was down and
\* is up, and nothing when the flag has not changed.
C4_TransitionTable ==
    \A c \in 1..cycle : \A n \in 1..Len(hosts) :
        ~FirstObservation(c, n) =>
            LET was == PriorFlag(c, n)
                is  == upHist[c][n]
                out == outHist[c][n]
            IN  /\ (was /\ ~is) <=>
                        /\ out.msgs = <<DownText(hosts[n])>>
                        /\ out.started = <<[hc |-> hosts[n], state |-> "down"]>>
                /\ (~was /\ is) <=>
                        /\ out.msgs = <<UpText(hosts[n])>>
                        /\ out.started = <<[hc |-> hosts[n], state |-> "up"]>>
                /\ (was = is) <=> (out.msgs = <<>> /\ out.started = <<>>)
                /\ Len(out.msgs) <= 1
                /\ Len(out.started) = Len(out.msgs)

\* one batch with two entries of the same host: the second entry was judged
\* against the first and went down, and in the next batch the first came up
\* against the second
C4_Witness ==
    /\ cycle = 2
    /\ Len(hosts) = 2
    /\ SameHost(1, 2)
    /\ hosts[1] # hosts[2]
    /\ upHist = <<<<TRUE, FALSE>>, <<TRUE, TRUE>>>>
    /\ outHist[1][2].msgs = <<DownText(hosts[2])>>
    /\ transitions = <<UpText(hosts[1])>>
    /\ tasks = <<[hc |-> hosts[2], state |-> "down"],
                 [hc |-> hosts[1], state |-> "up"]>>

AppearsOnce(n) == LastInBatch(n) = {n}

\* the messages of the flips of the flag of entry n over the first c batches
RECURSIVE FlipTexts(_, _)
FlipTexts(n, c) ==
    IF c <= 1 THEN <<>>
    ELSE FlipTexts(n, c - 1) \o
         (IF upHist[c - 1][n] = upHist[c][n] THEN <<>>
          ELSE IF upHist[c][n] THEN <<UpText(hosts[n])>>
          ELSE <<DownText(hosts[n])>>)

\* the messages the iterations of entry n emitted over the first c batches
RECURSIVE Emitted(_, _)
Emitted(n, c) ==
    IF c = 0 THEN <<>> ELSE Emitted(n, c - 1) \o outHist[c][n].msgs

Changes(n) == Cardinality({c \in 2..cycle : upHist[c - 1][n] # upHist[c][n]})

NotifiedFor(n) == SelectSeq(tasks, LAMBDA t : t.hc = hosts[n])

\* C3: for a host that appears once in each batch, the messages emitted for
\* it over the batches are as many as the changes of its flag between
\* consecutive batches, they are the messages of those flips in order, so
\* they alternate, and one notify task is started per message.
C3_OneMessagePerFlip ==
    \A n \in 1..Len(hosts) :
        AppearsOnce(n) =>
            LET said == Emitted(n, cycle)
            IN  /\ Len(said) = Changes(n)
                /\ said = FlipTexts(n, cycle)
                /\ \A k \in 1..(Len(said) - 1) : said[k] # said[k + 1]
                /\ Len(NotifiedFor(n)) = Len(said)
                /\ \A k \in 1..Len(said) :
                        NotifiedFor(n)[k].state =
                            (IF said[k] = DownText(hosts[n]) THEN "down" ELSE "up")

\* a single host was up, then down, then up: "went DOWN" then "came UP",
\* two messages and two notify tasks
C3_Witness ==
    /\ cycle = 3
    /\ Len(hosts) = 1
    /\ upHist = <<<<TRUE>>, <<FALSE>>, <<TRUE>>>>
    /\ Emitted(1, 3) = <<DownText(hosts[1]), UpText(hosts[1])>>
    /\ transitions = <<UpText(hosts[1])>>
    /\ tasks = <<[hc |-> hosts[1], state |-> "down"],
                 [hc |-> hosts[1], state |-> "up"]>>

\* the messages of the entries 1..n of a batch with flags u on the map p, in
\* the order of the entries: an entry is judged against the latest earlier
\* entry of its host, or against the map
RECURSIVE InConfigOrder(_, _, _)
InConfigOrder(p, u, n) ==
    IF n = 0 THEN <<>>
    ELSE LET key   == hosts[n].Host
             known == EarlierInBatch(n) # {} \/ key \in DOMAIN p
             was   == IF EarlierInBatch(n) # {} THEN u[Max(EarlierInBatch(n))]
                      ELSE IF key \in DOMAIN p THEN p[key] ELSE FALSE
         IN  InConfigOrder(p, u, n - 1) \o
             (IF known /\ was /\ ~u[n] THEN <<DownText(hosts[n])>>
              ELSE IF known /\ ~was /\ u[n] THEN <<UpText(hosts[n])>>
              ELSE <<>>)

\* C13: a poll cycle is deterministic.  For fixed check outcomes of the
\* hosts and a fixed tracker state, the transition messages of checkAllHosts
\* followed by Update, which come in configuration order, and the resulting
\* previous-state map are the same whatever the order in which the workers
\* complete: they are functions of the hosts, the outcomes and the map.
C13_PollDeterministic ==
    [][fpc' = "updated" =>
        /\ transitions' = InConfigOrder(prev, up, Len(hosts))
        /\ transitions' = UpdateLoop(prev, SequentialResults(hosts, up),
                                     Len(hosts)).transitions
        /\ prev' = [h \in {hosts[n].Host : n \in 1..Len(hosts)} |->
                        up[Max({n \in 1..Len(hosts) : hosts[n].Host = h})]]
      ]_vars

\* the second host answered first; the first host went down and the second
\* came up, and the messages are in configuration order
C13_Witness ==
    /\ fpc = "updated"
    /\ Len(hosts) = 2
    /\ arrival = <<2, 1>>
    /\ up = <<FALSE, TRUE>>
    /\ transitions = <<DownText(hosts[1]), UpText(hosts[2])>>

\* the deliveries of one kind a goroutine has made
Made(job, kind) == Cardinality({i \in 1..Len(job.sent) : job.sent[i].kind = kind})

\* C12: Update returns without waiting for a delivery to start or finish:
\* the goroutines it starts have sent nothing when it returns, and it can
\* run whatever the earlier goroutines are doing.  Each transition leads to
\* at most one POST and at most one command, a delivery is not tried again
\* after a failure or a timeout, and a step of a delivery changes neither
\* the previous-state map nor the returned transitions.
C12_BestEffortOnce ==
    [][/\ cycle' = cycle + 1 =>
            /\ Len(jobs') = Len(tasks')
            /\ Len(tasks') = Len(tasks) + Len(transitions')
            /\ \A k \in 1..Len(jobs) : jobs'[k] = jobs[k]
            /\ \A k \in (Len(jobs) + 1)..Len(jobs') : jobs'[k] = NewJob
       /\ cycle' = cycle =>
            /\ prev' = prev
            /\ transitions' = transitions
            /\ tasks' = tasks
       /\ \A k \in 1..Len(jobs') :
            /\ Made(jobs'[k], "POST") <= 1
            /\ Made(jobs'[k], "sh") <= 1
            /\ Made(jobs'[k], "POST") = 1 => jobs'[k].pc \in {"command", "done"}
            /\ Made(jobs'[k], "sh") = 1 => jobs'[k].pc = "done"
       /\ cycle < MaxCycles =>
            ENABLED (\E u \in [1..Len(hosts) -> BOOLEAN] : NotifyUpdate(u))
      ]_vars

\* the host went down and came up: the POST of the first goroutine timed out
\* and its command is running, and the third Update has returned with the
\* second goroutine not yet scheduled
C12_Witness ==
    /\ cycle = 3
    /\ Len(jobs) = 2
    /\ tasks[1].hc = tasks[2].hc
    /\ tasks[2].state = "up"
    /\ transitions # <<>>
    /\ jobs[1].pc = "command"
    /\ Len(jobs[1].sent) = 1
    /\ jobs[1].sent[1].outcome = "timeout"
    /\ jobs[2] = NewJob

\* C19: when a notify channel is configured, every change of the online flag
\* of a host between two consecutive poll cycles starts a notification for
\* that host with the new state, in the TUI, with --web and with --watch.
C19_EveryFlipNotifies ==
    [][(/\ polls' = polls + 1
        /\ polls >= 1
        /\ config.Webhook # "" \/ config.Command # "")
       => \A n \in 1..Len(hosts) :
            latest[n].Online # latest'[n].Online =>
                \E k \in (Len(tasks) + 1)..Len(tasks') :
                    tasks'[k] = [hc    |-> hosts[n],
                                 state |-> IF latest'[n].Online THEN "up" ELSE "down"]
      ]_vars

\* in the TUI, with a webhook configured, the host was up at the first
\* check and down at the second, and no notify goroutine exists
C19_Witness ==
    /\ mode = "tui"
    /\ config.Webhook # ""
    /\ polls = 2
    /\ ~latest[1].Online
    /\ tasks = <<>>
    /\ jobs = <<>>

\* the host identities of the batches so far
HostsSeen(c) == IF c = 0 THEN {} ELSE {hosts[n].Host : n \in 1..Len(hosts)}

\* C20: the previous-state map only grows.  After any sequence of Update
\* calls its keys are exactly the host identities that appeared in a batch,
\* no Update removes a key, one batch adds at most one key for each distinct
\* host identity in it, and the value of a key is the online flag of the
\* most recent result of that host.
C20_PrevOnlyGrows ==
    [][/\ DOMAIN prev \subseteq DOMAIN prev'
       /\ DOMAIN prev = HostsSeen(cycle)
       /\ DOMAIN prev' = HostsSeen(cycle')
       /\ Cardinality(DOMAIN prev' \ DOMAIN prev)
            <= Cardinality({hosts[n].Host : n \in 1..Len(hosts)})
       /\ \A n \in 1..Len(hosts) :
            prev'[hosts[n].Host] = upHist'[cycle'][Max(LastInBatch(n))]
      ]_vars

\* two entries share a host identity: the map has one key, and after the
\* second batch it holds the flag of the later entry of that batch
C20_Witness ==
    /\ cycle = 2
    /\ Len(hosts) = 2
    /\ SameHost(1, 2)
    /\ upHist = <<<<FALSE, TRUE>>, <<TRUE, FALSE>>>>
    /\ DOMAIN prev = {hosts[1].Host}
    /\ prev[hosts[1].Host] = FALSE

(***************************************************************************)
(* Properties of the dispatch store, checked under SpecStore.              *)
(***************************************************************************)
SamePair(a, b) == a.IssueKey = b.IssueKey /\ a.Target = b.Target

\* C5: in every reachable state of the store at most one Assignment exists
\* for each (issueKey, target) pair.
C5_OnePerPair ==
    \A i, j \in 1..Len(Assignments) :
        SamePair(Assignments[i], Assignments[j]) => i = j

\* a third Assign was made and the store holds two records: one was replaced
C5_Witness ==
    /\ ret.op = "Assign"
    /\ clock = 6
    /\ Len(Assignments) = 2

\* C6: Assign is an upsert.  A record of the pair is replaced at its position
\* by a record with the new summary, status pending, an empty note and fresh
\* times, and the number of records stays; otherwise one record is appended
\* at the end.  Every other record is unchanged and the returned record is
\* the stored one.
C6_AssignUpsert ==
    [][ret'.op = "Assign" =>
        LET old  == {i \in 1..Len(Assignments) :
                        /\ Assignments[i].IssueKey = ret'.args[1]
                        /\ Assignments[i].Target = ret'.args[3]}
            pos  == IF old = {} THEN Len(Assignments) + 1
                    ELSE CHOOSE i \in old : TRUE
            new  == Assignments'[pos]
        IN  /\ Len(Assignments') = IF old = {} THEN Len(Assignments) + 1
                                   ELSE Len(Assignments)
            /\ new.IssueKey = ret'.args[1]
            /\ new.Summary = ret'.args[2]
            /\ new.Target = ret'.args[3]
            /\ new.Status = StatusPending
            /\ new.Note = ""
            /\ new.CreatedAt.wall >= clock
            /\ new.UpdatedAt.wall >= new.CreatedAt.wall
            /\ \A j \in 1..Len(Assignments) :
                    j # pos => Assignments'[j] = Assignments[j]
            /\ ret'.val = <<new>>
            /\ ret'.err = NoErr
       ]_vars

\* the first of two records was replaced in place by a later Assign
C6_Witness ==
    /\ ret.op = "Assign"
    /\ Len(Assignments) = 2
    /\ ret.val = <<Assignments[1]>>
    /\ Assignments[1].CreatedAt.wall > Assignments[2].CreatedAt.wall
    /\ Assignments[1].Summary = "Fix bug now"

\* C7: UpdateStatus and Remove with an id that no stored record has return
\* the not-found error and leave the records, and the file, as they were.
C7_UnknownIDNoChange ==
    [][(/\ ret'.op \in {"UpdateStatus", "Remove"}
        /\ \A i \in 1..Len(Assignments) : Assignments[i].ID # ret'.args[1])
       => (/\ ret'.err = ErrNotFound
           /\ Assignments' = Assignments
           /\ file' = file)
      ]_vars

\* UpdateStatus with an unknown id was refused on a store that has records
C7_Witness ==
    /\ ret.op = "UpdateStatus"
    /\ ret.err = ErrNotFound
    /\ Len(Assignments) = 2

\* the indices of the records of a target, and the k-th of them
IndicesOf(as, target) == {i \in 1..Len(as) : as[i].Target = target}

Nth(S, k) == CHOOSE i \in S : Cardinality({j \in S : j <= i}) = k

\* C15: ForTarget(target) returns exactly the stored records whose target is
\* the argument, each once and in store order, and changes nothing in the
\* store or its file.
C15_ForTargetFilters ==
    [][ret'.op = "ForTarget" =>
        LET hit == IndicesOf(Assignments, ret'.args[1])
        IN  /\ Len(ret'.val) = Cardinality(hit)
            /\ \A k \in 1..Len(ret'.val) : ret'.val[k] = Assignments[Nth(hit, k)]
            /\ Assignments' = Assignments
            /\ file' = file
       ]_vars

\* ForTarget returned the two records of one target out of three records,
\* with a record of the other target between them
C15_Witness ==
    /\ ret.op = "ForTarget"
    /\ Len(Assignments) = 3
    /\ Len(ret.val) = 2
    /\ Assignments[2].Target # ret.args[1]
    /\ ret.val = <<Assignments[1], Assignments[3]>>

\* C17: UpdateStatus with an id that is present changes only the status, the
\* note and updatedAt of the matching record; its id, issue key, summary,
\* target and createdAt, the number and order of the records and every other
\* record stay unchanged.
C17_UpdateStatusFrame ==
    [][(/\ ret'.op = "UpdateStatus"
        /\ \E i \in 1..Len(Assignments) : Assignments[i].ID = ret'.args[1])
       => LET i == Nth({j \in 1..Len(Assignments) :
                            Assignments[j].ID = ret'.args[1]}, 1)
              old == Assignments[i]
              new == Assignments'[i]
          IN  /\ ret'.err = NoErr
              /\ Len(Assignments') = Len(Assignments)
              /\ new.Status = ret'.args[2]
              /\ new.Note = ret'.args[3]
              /\ new.UpdatedAt.wall >= clock
              /\ new.ID = old.ID
              /\ new.IssueKey = old.IssueKey
              /\ new.Summary = old.Summary
              /\ new.Target = old.Target
              /\ new.CreatedAt = old.CreatedAt
              /\ \A j \in 1..Len(Assignments) : j # i => Assignments'[j] = Assignments[j]
      ]_vars

\* the second of two records was set to done with a note
C17_Witness ==
    /\ ret.op = "UpdateStatus"
    /\ ret.err = NoErr
    /\ Len(Assignments) = 2
    /\ Assignments[1].Status = StatusPending
    /\ Assignments[2].ID = ret.args[1]
    /\ Assignments[2].Status = StatusDone
    /\ Assignments[2].Note = "blocked"
    /\ Assignments[2].UpdatedAt.wall > Assignments[2].CreatedAt.wall + 1

\* C18: Remove with an id that is present deletes the matching record and
\* nothing else: the store has one record fewer and the remaining records
\* keep their content and their relative order.
C18_RemoveOne ==
    [][(/\ ret'.op = "Remove"
        /\ \E i \in 1..Len(Assignments) : Assignments[i].ID = ret'.args[1])
       => LET i == Nth({j \in 1..Len(Assignments) :
                            Assignments[j].ID = ret'.args[1]}, 1)
          IN  /\ ret'.err = NoErr
              /\ Len(Assignments') = Len(Assignments) - 1
              /\ \A j \in 1..(i - 1) : Assignments'[j] = Assignments[j]
              /\ \A j \in (i + 1)..Len(Assignments) : Assignments'[j - 1] = Assignments[j]
              /\ file' = file
      ]_vars

\* the first of three records was removed and the other two moved up
C18_Witness ==
    /\ ret.op = "Remove"
    /\ ret.err = NoErr
    /\ Len(Assignments) = 2
    /\ clock = 6
    /\ Assignments[1].CreatedAt.wall = 2
    /\ Assignments[2].CreatedAt.wall = 4

InCS(c) == calls[c].pc \notin {"idle", "lock"}

\* what the method of caller c has to have done when it returns, given the
\* content snap the store had when the caller got the lock
EffectOf(c) ==
    LET k == calls[c]
    IN  CASE k.op = "Assign" ->
                /\ Assignments = AssignInto(k.snap, k.a)
                /\ k.out = <<k.a>>
          [] k.op = "UpdateStatus" ->
                /\ Assignments = UpdateStatusIn(k.snap, k.args[1], k.args[2],
                                                k.args[3], clock - 1)
                /\ k.err = IF \E i \in 1..Len(k.snap) : k.snap[i].ID = k.args[1]
                           THEN NoErr ELSE ErrNotFound
          [] k.op = "Remove" ->
                /\ Assignments = RemoveFrom(k.snap, k.args[1])
                /\ k.err = IF \E i \in 1..Len(k.snap) : k.snap[i].ID = k.args[1]
                           THEN NoErr ELSE ErrNotFound
          [] k.op = "ForTarget" ->
                /\ Len(k.out) = Cardinality(IndicesOf(k.snap, k.args[1]))
                /\ \A n \in 1..Len(k.out) :
                        k.out[n] = k.snap[Nth(IndicesOf(k.snap, k.args[1]), n)]
          [] k.op = "All" -> k.out = k.snap
          [] k.op = "Save" -> file = FileOf(MarshalStore(k.snap))

\* C11: under any interleaving of concurrent callers of Assign,
\* UpdateStatus, Remove, ForTarget, All and Save, no mutating operation runs
\* while another operation is inside its critical section; the store does
\* not change under a reader, every operation has the effect of running
\* alone on the content it found when it took the lock, so no reader sees a
\* partly applied mutation, and concurrent Assign calls for one pair leave
\* one record.
C11_LockedAndAtomic ==
    /\ \A c, d \in Callers :
        (c # d /\ InCS(c) /\ calls[c].op \in Writers) => ~InCS(d)
    /\ \A c \in Callers :
        /\ (InCS(c) /\ calls[c].op \in Readers) => calls[c].snap = Assignments
        /\ calls[c].pc = "unlock" => EffectOf(c)
    /\ \A i, j \in 1..Len(Assignments) :
        (/\ Assignments[i].IssueKey = Assignments[j].IssueKey
         /\ Assignments[i].Target = Assignments[j].Target) => i = j
    /\ (mu.w # "") => mu.r = {}

\* both callers assigned the same pair: the second found the record of the
\* first and replaced it, and the first is waiting for the lock to read
C11_Witness ==
    /\ calls["c2"].op = "Assign"
    /\ calls["c2"].pc = "unlock"
    /\ calls["c2"].i = 1
    /\ Len(calls["c2"].snap) = 1
    /\ calls["c2"].snap[1].Summary = SummaryOf("c1")
    /\ Assignments = <<calls["c2"].a>>
    /\ calls["c1"].op = "All"
    /\ calls["c1"].pc = "lock"
    /\ mu.w = "c2"

\* C16: All returns every record in store order, in a copy that is
\* independent of the store: a later Assign, UpdateStatus or Remove does not
\* change a list returned earlier, and a change the caller makes to its
\* list does not change the store.
C16_AllIsACopy ==
    /\ ret.op = "All" => ret.val = Assignments
    /\ View(heap, slice) = Assignments
    /\ \A j \in 1..Len(held) :
        /\ View(heap, held[j]) = heldVal[j]
        /\ held[j].arr # slice.arr

\* a list of two records was returned; since then the store has lost its
\* first record and updated the other, and the caller has edited its list
C16_Witness ==
    /\ Len(held) = 1
    /\ Len(heldVal[1]) = 2
    /\ heldVal[1][1].Note = "edited"
    /\ heldVal[1][2].Status = StatusPending
    /\ Len(Assignments) = 1
    /\ Assignments[1].ID = heldVal[1][2].ID
    /\ Assignments[1].Status = StatusDone

\* the records of two stores agree in every field; times by Time.Equal
SameRecords(as, bs) ==
    /\ Len(as) = Len(bs)
    /\ \A i \in 1..Len(as) :
        /\ as[i].ID = bs[i].ID
        /\ as[i].IssueKey = bs[i].IssueKey
        /\ as[i].Summary = bs[i].Summary
        /\ as[i].Target = bs[i].Target
        /\ as[i].Status = bs[i].Status
        /\ TimeEqual(as[i].CreatedAt, bs[i].CreatedAt)
        /\ TimeEqual(as[i].UpdatedAt, bs[i].UpdatedAt)
        /\ as[i].Note = bs[i].Note

\* C8: round trip.  A store constructed from the path right after a
\* successful Save holds as many Assignments as the saved store, in the same
\* order, each equal to the original in every field.
C8_SaveLoadRoundTrip ==
    [][(ret.op = "Save" /\ ret.err = NoErr /\ ret'.op = "NewStore")
       => (ret'.err = NoErr /\ SameRecords(Assignments', Assignments))
      ]_vars

\* a store was constructed from a saved file that holds a record with a note
\* and a record without one
C8_Witness ==
    /\ ret.op = "NewStore"
    /\ file.exists
    /\ Len(Assignments) = 2
    /\ Assignments = UnmarshalStore(file.data)
    /\ Assignments[1].Note = ""
    /\ Assignments[2].Note = "blocked"
    /\ ~Assignments[2].UpdatedAt.mono

(***************************************************************************)
(* Properties of checkHost, checked under SpecCheck.                       *)
(***************************************************************************)
Metrics == {"load", "memory", "disk", "uptime"}

\* the runCommand calls made for a metric, in order
LogOf(m) == SelectSeq(cmdLog, LAMBDA e : e.metric = m)

FieldOf(m) ==
    CASE m = "load"   -> status.CPU
      [] m = "memory" -> status.Memory
      [] m = "disk"   -> status.Disk
      [] m = "uptime" -> status.Uptime

\* every command run for the metric failed or printed nothing but white space
FailedOrEmpty(m) ==
    \A i \in 1..Len(LogOf(m)) :
        LogOf(m)[i].err \/ LogOf(m)[i].out \in {<<>>, <<"\n">>}

\* the last command of the metric succeeded with output the parsing refuses:
\* a load of fewer than three fields, a vm_stat output that holds "error",
\* an uptime that holds "load" and starts with a comma
Refused(m) ==
    LET e == LogOf(m)[Len(LogOf(m))]
    IN  /\ ~e.err
        /\ CASE m = "load"   -> e.out = <<"1", " ", "2", "\n">>
             [] m = "memory" -> e.cmd = "vm_stat" /\ e.out[Len(e.out) - 1] = "r"
             [] m = "disk"   -> FALSE
             [] m = "uptime" -> e.out[1] = ","

CheckDoneOnline == cpc = "done" /\ failedAt = ""

AllFourAttempted == \A m \in Metrics : LogOf(m) # <<>>

\* C9 as claimed: once the session is open all four extractions are attempted,
\* online is true and error empty, and the fields that are empty are exactly
\* those whose extraction failed or returned empty output.
C9_ExactlyFailedEmpty ==
    CheckDoneOnline =>
        /\ AllFourAttempted
        /\ status.Online
        /\ status.Error = ""
        /\ \A m \in Metrics : (FieldOf(m) = <<>>) <=> FailedOrEmpty(m)

\* C9 as amended: the fields whose extraction failed or returned empty output
\* are empty, and a field is empty only then or when its command succeeded
\* with output the parsing refuses.
C9_FailedLeavesEmpty ==
    CheckDoneOnline =>
        /\ AllFourAttempted
        /\ status.Online
        /\ status.Error = ""
        /\ \A m \in Metrics :
            /\ FailedOrEmpty(m) => FieldOf(m) = <<>>
            /\ FieldOf(m) = <<>> => (FailedOrEmpty(m) \/ Refused(m))

\* the session opened and each of the five commands failed
C9_Witness ==
    /\ CheckDoneOnline
    /\ Len(cmdLog) = 5
    /\ \A i \in 1..5 : cmdLog[i].err /\ cmdLog[i].out # <<>>
    /\ status.Online
    /\ status.Error = ""
    /\ \A m \in Metrics : FieldOf(m) = <<>>

\* C10: when authentication resolution, the dial or the handshake fails,
\* checkHost returns at once with online false and the cause as error, runs
\* no command, and has dialled and shaken hands at most once.
C10_ConnectFailureReturns ==
    /\ dials <= 1
    /\ handshakes <= 1
    /\ failedAt # "" =>
        /\ cpc \in {"connected", "done"}
        /\ cmdLog = <<>>
        /\ dials = (IF failedAt = "auth" THEN 0 ELSE 1)
        /\ handshakes = (IF failedAt = "handshake" THEN 1 ELSE 0)
        /\ cpc = "done" =>
            /\ ~status.Online
            /\ status.Error =
                 (CASE failedAt = "auth" -> "no auth methods available"
                    [] failedAt = "dial" -> "dial: connection refused"
                    [] failedAt = "handshake" ->
                         "ssh: handshake failed: unable to authenticate")
            /\ \A m \in Metrics : FieldOf(m) = <<>>

\* checkHost returned after a handshake that failed
C10_Witness ==
    /\ cpc = "done"
    /\ failedAt = "handshake"
    /\ dials = 1
    /\ handshakes = 1
    /\ ~status.Online
    /\ status.Error # ""
    /\ "tcp" \notin conns

SpokeFor(c, h) ==
    {n \in 1..Len(hosts) : hosts[n].Host = h /\ outHist[c][n].msgs # <<>>}

NotifiedIn(c, h) ==
    {n \in 1..Len(hosts) : hosts[n].Host = h /\ outHist[c][n].started # <<>>}

\* C21: in every batch the transition rule is applied once per host field:
\* one Update call emits at most one transition message and starts at most
\* one notification for one host field, also when several entries share it.
C21_OncePerIdentity ==
    \A c \in 1..cycle : \A n \in 1..Len(hosts) :
        /\ Cardinality(SpokeFor(c, hosts[n].Host)) <= 1
        /\ Cardinality(NotifiedIn(c, hosts[n].Host)) <= 1

\* two entries share the host field; in the second batch the first refuses
\* and the second answers, and the one Update call returned "went DOWN" and
\* "came UP" for the same host and started two notifications
C21_Witness ==
    /\ cycle = 2
    /\ Len(hosts) = 2
    /\ SameHost(1, 2)
    /\ hosts[1] # hosts[2]
    /\ upHist[2] = <<FALSE, TRUE>>
    /\ transitions = <<DownText(hosts[1]), UpText(hosts[2])>>
    /\ Len(tasks) >= 2

\* C22: after any sequence of Assign, UpdateStatus, Remove and NewStore the
\* status of every stored Assignment is one of pending, in-progress, done,
\* failed.
C22_StatusInEnum ==
    \A i \in 1..Len(Assignments) : Assignments[i].Status \in Statuses

\* UpdateStatus returned nil for a status outside the four, and the record
\* holds it
C22_Witness ==
    /\ ret.op = "UpdateStatus"
    /\ ret.err = NoErr
    /\ ret.args[2] \notin Statuses
    /\ \E i \in 1..Len(Assignments) :
            Assignments[i].ID = ret.args[1] /\ Assignments[i].Status = ret.args[2]

\* C23: checkHost releases the remote session on every exit path: when it
\* has returned, the connection of the client is closed, whatever the
\* commands did; after a failed handshake the dialled connection is closed;
\* and no session of runCommand is open once runCommand has returned.
C23_SessionReleased ==
    /\ cpc = "done" => "tcp" \notin conns
    /\ failedAt = "handshake" => "tcp" \notin conns
    /\ "session" \notin conns
    /\ cpc \in {"load", "memory", "disk", "uptime", "return"} => "tcp" \in conns

\* checkHost returned after a successful connect and four metric steps of
\* which at least one command failed, and the connection is closed
C23_Witness ==
    /\ cpc = "done"
    /\ connErr = ""
    /\ dials = 1
    /\ Len(cmdLog) >= 4
    /\ \E n \in 1..Len(cmdLog) : cmdLog[n].err
    /\ "tcp" \notin conns

\* C30: in every HostStatus checkHost returns, error is non-empty exactly
\* when online is false; online = false implies that cpu, memory, disk and
\* uptime are empty; and a failed metric step never sets error.
C30_ErrorIffOffline ==
    cpc = "done" =>
        /\ (status.Error # "") <=> ~status.Online
        /\ ~status.Online =>
                /\ status.CPU = <<>>
                /\ status.Memory = <<>>
                /\ status.Disk = <<>>
                /\ status.Uptime = <<>>
                /\ cmdLog = <<>>
        /\ (\E n \in 1..Len(cmdLog) : cmdLog[n].err) => status.Error = ""

\* checkHost returned offline with the dial error and no metric, after a
\* dial that was refused
C30_Witness ==
    /\ cpc = "done"
    /\ failedAt = "dial"
    /\ ~status.Online
    /\ status.Error = "dial: " \o DialCause
    /\ status.CPU = <<>>
    /\ status.Uptime = <<>>

\* checkHost returned online with every command failed and no error text
C30_AllFailedWitness ==
    /\ cpc = "done"
    /\ status.Online
    /\ Len(cmdLog) = 5
    /\ \A n \in 1..Len(cmdLog) : cmdLog[n].err
    /\ status.Error = ""

\* C24: a published result set is never mutated: every poll cycle builds a
\* list of its own and ws.latest is replaced as a whole, so the array of a
\* published list still holds what it held when it was published, and a
\* request that took the list of one cycle reads entries of that cycle only
\* and, when it ends, all of them, while later cycles run.
C24_PublishedNeverMutated ==
    /\ \A k \in 1..Len(published) :
            /\ arrays[published[k].at] = published[k].content
            /\ \A j \in 1..(k - 1) : published[j].at # published[k].at
            /\ \A i \in 1..Len(hosts) :
                    /\ published[k].content[i].Config = hosts[i]
                    /\ published[k].content[i].LastCheck = Now(published[k].cycle)
    /\ reader.at # 0 =>
            /\ \A i \in 1..Len(reader.out) :
                    reader.out[i] = JsonResult(published[reader.k].content[i])
            /\ reader.pc = "sent" => Len(reader.out) = Len(hosts)

\* a request took the list of the first cycle and answered with its two
\* entries after the second cycle was published and while the third was
\* being collected
C24_Witness ==
    /\ reader.pc = "sent"
    /\ reader.k = 1
    /\ Len(published) = 2
    /\ poller.pc = "recv"
    /\ poller.cycle = 3
    /\ poller.todo # 1..Len(hosts)
    /\ Len(reader.out) = 2
    /\ reader.out[1].Online # published[2].content[1].Online
    /\ \A i \in 1..2 : reader.out[i].CheckAt = MarshalTime(Now(1))

\* the reports of worker i: in the channel, and received
ReportsOf(i) ==
    Cardinality({n \in 1..Len(ch) : ch[n].idx = i})
    + Cardinality({n \in 1..Len(arrival) : arrival[n] = i})

Returned == fpc \in {"done", "updated"}

\* one worker per entry, one report per worker, room in the channel for
\* every send, and no return before every report was received
FanoutCounts ==
    /\ DOMAIN wpc = 1..Len(hosts)
    /\ \A i \in 1..Len(hosts) :
            /\ (wpc[i] # "none") <=> (i <= spawned)
            /\ ReportsOf(i) = (IF wpc[i] = "sent" THEN 1 ELSE 0)
            /\ wpc[i] = "running" => Len(ch) < Len(hosts)
    /\ fpc # "spawn" => spawned = Len(hosts)
    /\ Returned =>
            /\ received = Len(hosts)
            /\ ch = <<>>
            /\ \A i \in 1..Len(hosts) : wpc[i] = "sent"
    /\ cycle > 0 => fpc = "updated"

Running(i) == i \in DOMAIN wpc /\ wpc[i] = "running"

Sent(i) == i \in DOMAIN wpc /\ wpc[i] = "sent"

\* C25: one fan-out starts one worker per host entry, each worker sends one
\* report and never blocks on the send; checkAllHosts returns only after
\* all N reports were received; it returns, and the tracker gets the batch,
\* if every checkHost terminates; and if one worker stays in checkHost for
\* ever, checkAllHosts never returns and the tracker is never updated.
C25_OneReportEach ==
    /\ []FanoutCounts
    /\ (\A i \in 1..MaxHosts : (Running(i) ~> Sent(i))) => <>(fpc = "updated")
    /\ (\E i \in 1..MaxHosts : <>[]Running(i)) => [](~Returned /\ cycle = 0)

\* two hosts, the second reported first, and the batch reached the tracker
C25_Witness ==
    /\ fpc = "updated"
    /\ Len(hosts) = 2
    /\ arrival = <<2, 1>>
    /\ received = 2
    /\ cycle = 1

\* the first host has reported and was received, the second is still in
\* checkHost, and checkAllHosts waits
C25_HangWitness ==
    /\ fpc = "recv"
    /\ Len(hosts) = 2
    /\ received = 1
    /\ wpc = <<"sent", "running">>
    /\ ch = <<>>
    /\ ~ENABLED (FanOnly /\ Recv)

\* C26: poll cycles never overlap: in every run mode at most one fan-out is
\* in flight at any time, and one timer chain schedules the next cycle (a
\* cycle is either in flight or awaited by one timer), also after the r key
\* in the TUI.
C26_NoOverlap ==
    /\ inflight <= 1
    /\ mode = "tui" => inflight + timers = 1

\* the TUI: r was pressed while the first check was running, and two
\* fan-outs are in flight
C26_Witness ==
    /\ mode = "tui"
    /\ polls = 0
    /\ checking
    /\ inflight = 2
    /\ timers = 0

\* the TUI after an r: a check is in flight and a timer is pending
C26_TwoChains ==
    /\ mode = "tui"
    /\ inflight = 1
    /\ timers = 1

C29_TornFile ==
    /\ disk.how = "torn" =>
            /\ disk.kind = "file"
            /\ disk.text # SavedText(disk.of)
            /\ disk.was.kind = "file" => disk.text # disk.was.text
            /\ \E n \in 0..(Len(SavedText(disk.of)) - 1) :
                    disk.text = SubSeq(SavedText(disk.of), 1, n)
            /\ made.called => (made.nil /\ made.err = ErrParse)
    /\ (disk.how = "saved" /\ made.called) =>
            (made.err = NoErr /\ SameRecords(made.store, disk.of))

\* the file held one record; the Save of two records was killed after a
\* part of the text was written, and NewStore failed on what was left
C29_Witness ==
    /\ disk.how = "torn"
    /\ disk.was.kind = "file"
    /\ Len(disk.of) = 2
    /\ disk.was.text = SavedText(<<disk.of[1]>>)
    /\ Len(disk.text) > 3
    /\ made.called
    /\ made.nil
    /\ made.err = ErrParse

(***************************************************************************)
(* C31                                                                     *)
(***************************************************************************)
\* the priority of a method in the documented order
Rank(m) ==
    CASE m = "agent" -> 1
      [] m = "key_file" -> 2
      [] m = "id_ed25519" -> 3
      [] m = "id_rsa" -> 4
      [] m = "password" -> 5

Listed(m) == \E i \in 1..Len(env.list) : env.list[i] = m

\* C31: the list of authentication methods holds, in this order and each at
\* most once, the agent signer when the agent socket accepts, the key of
\* keyFile when it is set and the file is read and parses, each default key
\* that is read and parses, and the password when it is set; a key that is
\* unreadable or does not parse only leaves its entry out; and with an
\* empty list sshConnect fails with the no-auth error before any dial of
\* the host, while a non-empty list goes on to the dial.
C31_AuthListOrder ==
    /\ ~env.seen => cpc = "auth" /\ dials = 0
    /\ env.seen =>
        /\ \A i, j \in 1..Len(env.list) : i < j => Rank(env.list[i]) < Rank(env.list[j])
        /\ Listed("agent") <=> env.agent = "accepts"
        /\ Listed("key_file") <=> (hc.KeyFile # "" /\ env.key = "parses")
        /\ Listed("id_ed25519") <=> env.ed = "parses"
        /\ Listed("id_rsa") <=> env.rsa = "parses"
        /\ Listed("password") <=> hc.Password # ""
        /\ (env.list = <<>>) <=> (failedAt = "auth")
        /\ failedAt = "auth" =>
            /\ connErr = "no auth methods available"
            /\ dials = 0
            /\ handshakes = 0
            /\ conns = {}
        /\ env.list # <<>> =>
            /\ connErr # "no auth methods available"
            /\ cpc # "dial" => dials = 1

\* the key of keyFile did not parse, id_ed25519 is missing, the agent socket
\* refused: the list is id_rsa alone and the host has been dialled
C31_Witness ==
    /\ env.seen
    /\ hc.KeyFile # ""
    /\ env.agent = "refused"
    /\ env.key = "unparseable"
    /\ env.ed = "unreadable"
    /\ env.rsa = "parses"
    /\ env.list = <<"id_rsa">>
    /\ dials = 1

\* nothing usable and no password: checkHost has returned without a dial
C31_EmptyWitness ==
    /\ env.seen
    /\ env.list = <<>>
    /\ env.agent = "refused"
    /\ cpc = "done"
    /\ status.Error = "no auth methods available"
    /\ dials = 0

\* every source this host has is usable: four methods in the documented order
C31_FullWitness ==
    /\ env.seen
    /\ env.list = <<"agent", "id_ed25519", "id_rsa", "password">>

(***************************************************************************)
(* C39                                                                     *)
(***************************************************************************)
\* C39: when checkHost has returned, no connection it opened is still
\* open: neither the connection to the host, nor a session, nor the
\* connection to the agent socket dialled while the methods were resolved.
C39_NoConnectionLeftOpen ==
    cpc = "done" => conns = {}

\* checkHost returned a status of an online host, the connection to the
\* host is closed and the one to the agent socket is not
C39_Witness ==
    /\ cpc = "done"
    /\ status.Online
    /\ Len(cmdLog) = 5
    /\ conns = {"agent"}

\* the same after a connect that failed at the dial
C39_FailedDialWitness ==
    /\ cpc = "done"
    /\ failedAt = "dial"
    /\ conns = {"agent"}

(***************************************************************************)
(* C32                                                                     *)
(***************************************************************************)
\* the deliveries of a goroutine that has gone through notify
Expected(cfg, t) ==
    (IF cfg.Webhook # "" THEN <<[kind |-> "POST", to |-> cfg.Webhook, hc |-> t.hc,
                                 state |-> t.state]>> ELSE <<>>)
    \o (IF cfg.Command # "" THEN <<[kind |-> "sh", to |-> cfg.Command, hc |-> t.hc,
                                    state |-> t.state]>> ELSE <<>>)

\* a delivery without its outcome
Attempt(d) == [kind |-> d.kind, to |-> d.to, hc |-> d.hc, state |-> d.state]

Attempts(job) == [i \in 1..Len(job.sent) |-> Attempt(job.sent[i])]

\* the deliveries made so far are the first ones of those expected
DeliveredSoFar(k) ==
    LET want == Expected(config, tasks[k])
        got == Attempts(jobs[k])
    IN  /\ Len(got) <= Len(want)
        /\ \A i \in 1..Len(got) : got[i] = want[i]
        /\ jobs[k].pc = "done" => got = want
        /\ jobs[k].pc = "command" => Len(got) = Len(want) - 1
        /\ jobs[k].pc = "webhook" => got = <<>> /\ config.Webhook # ""

\* C32: the goroutine of one transition makes the POST exactly when a
\* webhook is configured and runs the command exactly when a command is
\* configured, the POST first; with neither it delivers nothing; whatever
\* the POST comes to (response, error, timeout) the command is still run;
\* and, the process running on, every goroutine started gets through.
C32_ChannelsIndependent ==
    /\ [](\A k \in 1..Len(jobs) : DeliveredSoFar(k))
    /\ \A k \in 1..MaxJobs : (Len(jobs) >= k) ~> (Len(jobs) >= k /\ jobs[k].pc = "done")

\* both channels configured, the POST of the first goroutine timed out and
\* its command has been run
C32_Witness ==
    /\ config.Webhook # ""
    /\ config.Command # ""
    /\ Len(jobs) >= 1
    /\ jobs[1].pc = "done"
    /\ Len(jobs[1].sent) = 2
    /\ jobs[1].sent[1].kind = "POST"
    /\ jobs[1].sent[1].outcome = "timeout"
    /\ jobs[1].sent[2].kind = "sh"

\* neither channel configured: the goroutine has ended and delivered nothing
C32_NeitherWitness ==
    /\ config = [Webhook |-> "", Command |-> ""]
    /\ Len(jobs) >= 1
    /\ jobs[1].pc = "done"
    /\ jobs[1].sent = <<>>

\* only the command configured: no POST
C32_CommandOnlyWitness ==
    /\ config.Webhook = ""
    /\ Len(jobs) >= 1
    /\ jobs[1].pc = "done"
    /\ Len(jobs[1].sent) = 1
    /\ jobs[1].sent[1].kind = "sh"

(***************************************************************************)
(* C40                                                                     *)
(***************************************************************************)
\* goroutine j was started for an earlier transition of the host of k
EarlierOfSameHost(j, k) ==
    /\ j < k
    /\ tasks[j].hc.Host = tasks[k].hc.Host

\* C40: the deliveries for two transitions of one host are made in the
\* order of the transitions: when the goroutine of the later transition has
\* made all its deliveries, the goroutine of the earlier one has made at
\* least its first.
C40_DeliveriesInOrder ==
    \A j, k \in 1..Len(jobs) :
        (/\ EarlierOfSameHost(j, k)
         /\ jobs[k].pc = "done"
         /\ jobs[k].sent # <<>>) => jobs[j].sent # <<>>

\* the host went down and came up; the goroutine of "up" has made its POST
\* and run its command while the goroutine of "down" has not been scheduled
C40_Witness ==
    /\ Len(jobs) = 2
    /\ EarlierOfSameHost(1, 2)
    /\ tasks[1].state = "down"
    /\ tasks[2].state = "up"
    /\ jobs[1] = NewJob
    /\ jobs[2].pc = "done"
    /\ Len(jobs[2].sent) = 2

\* both goroutines have run: the POST of "down" timed out, and the command
\* of "up" has been run before the command of "down"
C40_CommandOvertaken ==
    /\ Len(jobs) = 2
    /\ EarlierOfSameHost(1, 2)
    /\ tasks[1].state = "down"
    /\ tasks[2].state = "up"
    /\ jobs[1].pc = "command"
    /\ Len(jobs[1].sent) = 1
    /\ jobs[1].sent[1].outcome = "timeout"
    /\ jobs[2].pc = "done"
    /\ Len(jobs[2].sent) = 2
    /\ jobs[2].sent[2].kind = "sh"

(***************************************************************************)
(* C34                                                                     *)
(***************************************************************************)
\* the last n elements of s
LastOf(s, n) == SubSeq(s, Len(s) - n + 1, Len(s))

Smaller(a, b) == IF a <= b THEN a ELSE b

\* C34: between two calls of Add, Checks and Times of a history have the
\* same length, at most Max, and Checks holds the flags of the most recent
\* min(k, Max) of the k calls so far, oldest first; inside a call there is
\* at most one entry more.
C34_HistoryKeepsNewest ==
    \A n \in DOMAIN history :
        /\ Len(history[n].Checks) <= HistoryMax + 1
        /\ ~AdderIn(n) =>
            /\ Len(history[n].Checks) = Len(history[n].Times)
            /\ Len(history[n].Checks) = Smaller(Len(added[n]), HistoryMax)
            /\ history[n].Checks = LastOf(added[n], Smaller(Len(added[n]), HistoryMax))

\* one call more than the limit: the flag of the first call, the only true
\* one, is gone, and the lock is released
C34_Witness ==
    /\ ~hmu
    /\ Len(added["arch"]) = HistoryMax + 1
    /\ added["arch"][1]
    /\ \A k \in 2..(HistoryMax + 1) : ~added["arch"][k]
    /\ Len(history["arch"].Checks) = HistoryMax
    /\ \A k \in 1..HistoryMax : ~history["arch"].Checks[k]

(***************************************************************************)
(* C33                                                                     *)
(***************************************************************************)
\* handleAPI is in the statements that read the history of the name n
ViewerReading(n) ==
    /\ viewer.pc \in {"sparkline", "percent", "count"}
    /\ viewer.results[viewer.i].Config.Name = n

\* C33: handleAPI is never in its reads of a HostHistory (Sparkline,
\* UptimePercent, len(Checks)) while pollLoop is inside Add on the same
\* HostHistory.
C33_HistoryReadExcludesAdd ==
    \A n \in DOMAIN history : ~(ViewerReading(n) /\ AdderIn(n))

\* the request is about to take len(h.Checks) of a history while Add has
\* appended to it and not yet dropped the oldest entry
C33_Witness ==
    /\ viewer.pc = "count"
    /\ adder.pc = "trim"
    /\ ViewerReading("arch")
    /\ AdderIn("arch")
    /\ Len(history["arch"].Checks) = HistoryMax + 1

\* a response was sent whose entry reports more checks than the limit and
\* a sparkline of another length
C33_TornResponse ==
    /\ viewer.pc = "sent"
    /\ Len(viewer.out) >= 1
    /\ viewer.out[1].CheckCount = HistoryMax + 1
    /\ Len(viewer.out[1].Sparkline) # viewer.out[1].CheckCount

(***************************************************************************)
(* C37                                                                     *)
(***************************************************************************)
\* C37: the id of every stored record is issueKey + "→" + target, and no
\* two stored records have the same id, whatever strings Assign was called
\* with; so an id names the record of one pair of issue key and target.
C37_IdsIdentifyRecords ==
    /\ \A i \in 1..Len(Assignments) :
            Assignments[i].ID = Assignments[i].IssueKey \o "→" \o Assignments[i].Target
    /\ \A i, j \in 1..Len(Assignments) :
            Assignments[i].ID = Assignments[j].ID => i = j

\* two records of different pairs with one id
C37_Witness ==
    /\ Len(Assignments) = 2
    /\ Assignments[1].ID = Assignments[2].ID
    /\ Assignments[1].IssueKey # Assignments[2].IssueKey
    /\ Assignments[1].Target # Assignments[2].Target

\* UpdateStatus with the id of the second record has changed the first, and
\* left the second as it was
C37_WrongRecordUpdated ==
    /\ Len(Assignments) = 2
    /\ Assignments[1].ID = Assignments[2].ID
    /\ ret.op = "UpdateStatus"
    /\ ret.err = NoErr
    /\ ret.args[1] = ID(Assignments[2].IssueKey, Assignments[2].Target)
    /\ Assignments[1].Status = StatusDone
    /\ Assignments[2].Status = StatusPending


(***************************************************************************)
(* C35: under any sequence of keys and messages the TUI reads no list out  *)
(* of range: the host cursor stays in 0 .. max(0, N - 1), the Jira cursor  *)
(* is an index of the list of its level whenever that list is read, and    *)
(* the dispatch cursor is an index of hosts whenever hosts is read.        *)
(***************************************************************************)
C35_CursorsInRange ==
    /\ ~panicked
    /\ hcursor >= 0
    /\ hcursor <= (IF Len(hosts) - 1 < 0 THEN 0 ELSE Len(hosts) - 1)
    /\ ListLen(jm) > 0 => InRange(jm.cursor, ListLen(jm))
    /\ jm.dispatching => InRange(jm.dispatchCursor, Len(hosts))

\* the second issue of a list was read and the second host is under the
\* dispatch cursor, the host cursor being on the second host
C35_Witness ==
    /\ jm.dispatching
    /\ jm.dispatchCursor = 1
    /\ jm.selIssue = <<Issue("PA", "2")>>
    /\ hcursor = 1

\* a refresh has brought a list shorter than the one the cursor was in,
\* and its only issue is read
C35_ShorterListWitness ==
    /\ jm.level = "detail"
    /\ shown = 3
    /\ Len(jm.issues) = 1
    /\ jm.selIssue = <<jm.issues[1]>>

(***************************************************************************)
(* C36: whenever the issues level is shown with loading = false, the issue *)
(* list is the response to the most recent search, which is for the        *)
(* selected project: no earlier response has replaced it, and the most     *)
(* recent search is not still under way with its loading flag cleared.     *)
(***************************************************************************)
C36_IssuesAreLatestSearch ==
    (jm.level = "issues" /\ ~jm.loading) =>
        /\ search.proj = jm.selProj
        /\ \A msg \in inbox : ~(msg.kind = "issues" /\ msg.id = search.id)
        /\ jm.err = "" => shown = search.id

\* PB is selected and its search is under way, and the issues of PA, whose
\* response came late, are shown with no Loading...
C36_Witness ==
    /\ jm.level = "issues"
    /\ ~jm.loading
    /\ jm.err = ""
    /\ jm.selProj = "PB"
    /\ jm.issues # <<>>
    /\ jm.issues[1].Project = "PA"
    /\ \E msg \in inbox : msg.kind = "issues" /\ msg.id = search.id

\* the response of the refresh is in the list, then the response of the
\* search before it replaces it
C36_OlderReplacesNewer ==
    /\ jm.level = "issues"
    /\ ~jm.loading
    /\ jm.err = ""
    /\ search.id = 3
    /\ shown = 2
    /\ inbox = {}


(***************************************************************************)
(* C38: when the store file is malformed at the start of the TUI, the      *)
(* process goes on with an empty store that has no path; from then on      *)
(* every dispatch adds its assignment in memory, its Save returns an error *)
(* that is shown to the user, and the malformed file is left as it was.    *)
(***************************************************************************)
\* the step is a dispatch: updateDispatch has started its command
Dispatches == jm.dispatching /\ nreq' = nreq + 1

\* the step hands the message of a failed Save to Update
FailedSaveHandled(msg) ==
    /\ msg \in inbox
    /\ msg.kind = "dispatched"
    /\ msg.err # NoErr
    /\ inbox' = inbox \ {msg}

\* View after Update: Loading... is drawn before, and instead of, m.err
ViewShows(m, err) == ~m.loading /\ m.err = err

\* the parts on the store, the file and the error of Save
C38_StoreStaysInMemory ==
    /\ [](made.err # NoErr =>
            /\ spath = ""
            /\ disk.how = "truncated"
            /\ NewStoreOf(disk).err # NoErr
            /\ \A msg \in inbox : msg.kind = "dispatched" => msg.err = ErrNoPath)
    /\ [][(made.err # NoErr /\ Dispatches) =>
            /\ IndexOfPair(Assignments', jm.selIssue[1].Key,
                           hosts[jm.dispatchCursor + 1].Label) > 0
            /\ \E msg \in inbox' \ inbox : msg.kind = "dispatched" /\ msg.err = ErrNoPath]_vars

C38_MalformedStoreKeepsRunning ==
    /\ C38_StoreStaysInMemory
    /\ [][\A msg \in inbox : FailedSaveHandled(msg) => ViewShows(jm', msg.err)]_vars

\* the error of a failed Save is in m.err while a load is under way:
\* Loading... is drawn, and the message of the load will replace m.err
C38_Witness ==
    /\ made.err # NoErr
    /\ spath = ""
    /\ Len(Assignments) = 1
    /\ jm.err = ErrNoPath
    /\ jm.loading
    /\ disk.how = "truncated"

\* the refresh of the detail level has started no command: no message
\* will end Loading..., and the error of the failed Save stays undrawn
C38_HiddenBehindLoading ==
    /\ made.err # NoErr
    /\ Len(Assignments) = 1
    /\ jm.level = "detail"
    /\ inbox = {}
    /\ jm.err = ErrNoPath
    /\ jm.loading

\* the error of a failed Save is drawn
C38_ShownWitness ==
    /\ made.err # NoErr
    /\ Len(Assignments) = 1
    /\ jm.err = ErrNoPath
    /\ ~jm.loading
    /\ ~jm.dispatching

====
